---- MODULE Spec2Model ----
(***************************************************************************)
(* RelayPlane SDK v3: the fluent workflow builder's step list, the         *)
(* topological scheduler, the step dispatcher of run()/runWithMCP() and    *)
(* the result assembler, together with the three-tier provider key         *)
(* resolution they use.                                                    *)
(*                                                                         *)
(* Strings that the code parses (step targets) are sequences of tokens in  *)
(* which ":" is the separator character; every other string is opaque.     *)
(***************************************************************************)
EXTENDS Integers, Sequences, FiniteSets, TLC

\* ------------------------------------------------------------------ bounds
\* Steps per workflow in the run specifications.
MaxSteps == 2
\* Steps per workflow in the scheduler specification.
MaxSortSteps == 3
\* Names listed by one .depends(...) call.
MaxDeps == 2
\* Builder values obtained in one chain of calls.
MaxBuilders == 4

\* ------------------------------------------------------------- vocabulary
\* JavaScript's undefined.
Undef == "<undefined>"
\* Step names a caller may use; by symmetry the i-th declared step takes one
\* of the first i names, dependencies may name any of them.
Names == <<"a", "b", "c">>
NameSet == {Names[i] : i \in 1..Len(Names)}
\* The names open to the i-th declared step.
NamesAt(i) == {Names[j] : j \in 1..(IF i < Len(Names) THEN i ELSE Len(Names))}

\* Step targets as written by the caller.
AiModels == { <<"openai", ":", "gpt">>, <<"gpt">> }
McpTools == { <<"crm", ":", "search">>, <<"crm", ":", "search", ":", "x">> }

\* Values an adapter or a tool may produce; "" is a falsy JavaScript value.
Outputs == {"", "out"}

Truthy(v) == v \notin {Undef, ""}

\* obj[key] on a JavaScript object modelled as a function.
Lookup(obj, key) == IF key \in DOMAIN obj THEN obj[key] ELSE Undef

EmptyObj == [k \in {} |-> Undef]

\* obj[key] = value
Assign(obj, key, value) ==
  [k \in (DOMAIN obj) \cup {key} |-> IF k = key THEN value ELSE obj[k]]

Range(s) == {s[i] : i \in 1..Len(s)}

\* Sequences over S without repetition, of length at most n.
RECURSIVE SeqsUpTo(_, _)
SeqsUpTo(S, n) ==
  IF n = 0 THEN {<<>>}
  ELSE LET shorter == SeqsUpTo(S, n - 1)
       IN shorter \cup {Append(q, x) : q \in shorter, x \in S}

DepLists == {d \in SeqsUpTo(NameSet, MaxDeps) : Cardinality(Range(d)) = Len(d)}

\* --------------------------------------------------------- step definitions
\* A target field that is not set (undefined); falsy like the empty string.
NoText == <<>>

\* new StepWithModelImpl(...): { name, type: 'ai', model, dependsOn: [] },
\* then optionally .depends(...deps) sets dependsOn.
AiStep(name, model, deps) ==
  [name |-> name, type |-> "ai", model |-> model, mcpTool |-> NoText,
   dependsOn |-> deps]

\* new StepMCPWithParamsImpl(...): { name, type: 'mcp', mcpTool, dependsOn: [] }
McpStep(name, tool, deps) ==
  [name |-> name, type |-> "mcp", model |-> NoText, mcpTool |-> tool,
   dependsOn |-> deps]

\* Every step the chain .step(name).with(model)/.mcp(tool).params(p)
\* [.depends(...)] can append when it is the i-th step of the list.
StepsAt(i) ==
  {AiStep(n, m, d) : n \in NamesAt(i), m \in AiModels, d \in DepLists}
  \cup {McpStep(n, t, d) : n \in NamesAt(i), t \in McpTools, d \in DepLists}

\* Steps whose only variety is the name and the dependency list.
PlainStepsAt(i) ==
  {AiStep(n, <<"openai", ":", "gpt">>, d) : n \in NamesAt(i), d \in DepLists}

RECURSIVE ListsOf(_)
\* Step lists of exactly n steps, the i-th drawn from StepsAt(i).
ListsOf(n) ==
  IF n = 0 THEN {<<>>}
  ELSE {Append(l, s) : l \in ListsOf(n - 1), s \in StepsAt(n)}

\* Step lists a builder chain can hold when run() is called.
Graphs == UNION {ListsOf(n) : n \in 1..MaxSteps}

\* ss is a list of plain steps that a builder chain can hold.
IsSortGraph(ss) == \A i \in DOMAIN ss : ss[i] \in PlainStepsAt(i)

\* ------------------------------------------------------ target parsing
RECURSIVE SplitFrom(_, _, _)
SplitFrom(s, i, cur) ==
  IF i > Len(s) THEN <<cur>>
  ELSE IF s[i] = ":" THEN <<cur>> \o SplitFrom(s, i + 1, <<>>)
  ELSE SplitFrom(s, i + 1, Append(cur, s[i]))

\* String.prototype.split(':')
Split(s) == SplitFrom(s, 1, <<>>)

\* A segment between separators, as an opaque string.
Text(part) == IF Len(part) = 1 THEN part[1] ELSE IF Len(part) = 0 THEN "" ELSE "?"

\* An Error object: the kind of its message and the names the message quotes.
NoError == [kind |-> "none", about |-> {}]

Ok(v) == [ok |-> TRUE, value |-> v]
Throw(kind, about) == [ok |-> FALSE, error |-> [kind |-> kind, about |-> about]]

parseModel(model) ==
  LET parts == Split(model)
  IN IF Len(parts) # 2 THEN Throw("InvalidModelFormat", Range(model))
     ELSE Ok(<<Text(parts[1]), Text(parts[2])>>)

parseMCPTool(tool) ==
  LET parts == Split(tool)
  IN IF Len(parts) # 2 THEN Throw("InvalidMCPToolFormat", Range(tool))
     ELSE Ok(<<Text(parts[1]), Text(parts[2])>>)

\* ------------------------------------------------------------- scheduler

\* this.steps.find(s => s.name === stepName), as an index (0: not found)
FindStep(ss, stepName) ==
  LET hits == {i \in 1..Len(ss) : ss[i].name = stepName}
  IN IF hits = {} THEN 0 ELSE CHOOSE i \in hits : \A j \in hits : i <= j

RECURSIVE visit(_, _, _)
RECURSIVE visitDeps(_, _, _, _)
\* visit() pushing the step before its dependencies are visited.
visit_pushFirst(ss, st, stepName) ==
  IF st.error.kind # "none" THEN st
  ELSE IF stepName \in st.visited THEN st
  ELSE IF stepName \in st.visiting
  THEN [st EXCEPT !.error = [kind |-> "CircularDependency", about |-> {stepName}]]
  ELSE LET i == FindStep(ss, stepName)
           entered == [st EXCEPT !.visiting = @ \cup {stepName}]
       IN IF i = 0
          THEN [entered EXCEPT !.error = [kind |-> "StepNotFound", about |-> {stepName}]]
          ELSE LET after == visitDeps(ss, [entered EXCEPT !.sorted = Append(@, ss[i])],
                                      ss[i].dependsOn, 1)
               IN IF after.error.kind # "none" THEN after
                  ELSE [after EXCEPT !.visiting = @ \ {stepName},
                                     !.visited = @ \cup {stepName}]

\* visit() taking a step that is being visited for a visited one.
visit_noCycleCheck(ss, st, stepName) ==
  IF st.error.kind # "none" THEN st
  ELSE IF stepName \in st.visited \/ stepName \in st.visiting THEN st
  ELSE LET i == FindStep(ss, stepName)
           entered == [st EXCEPT !.visiting = @ \cup {stepName}]
       IN IF i = 0
          THEN [entered EXCEPT !.error = [kind |-> "StepNotFound", about |-> {stepName}]]
          ELSE LET after == visitDeps(ss, entered, ss[i].dependsOn, 1)
               IN IF after.error.kind # "none" THEN after
                  ELSE [after EXCEPT !.visiting = @ \ {stepName},
                                     !.visited = @ \cup {stepName},
                                     !.sorted = Append(@, ss[i])]

\* The closure visit(stepName) of topologicalSort; st carries its captured
\* sorted / visited / visiting and the exception thrown, if any.
visit(ss, st, stepName) ==
  IF st.error.kind # "none" THEN st
  ELSE IF stepName \in st.visited THEN st
  ELSE IF stepName \in st.visiting
  THEN [st EXCEPT !.error = [kind |-> "CircularDependency", about |-> {stepName}]]
  ELSE LET i == FindStep(ss, stepName)
           entered == [st EXCEPT !.visiting = @ \cup {stepName}]
       IN IF i = 0
          THEN [entered EXCEPT !.error = [kind |-> "StepNotFound", about |-> {stepName}]]
          ELSE LET after == visitDeps(ss, entered, ss[i].dependsOn, 1)
               IN IF after.error.kind # "none" THEN after
                  ELSE [after EXCEPT !.visiting = @ \ {stepName},
                                     !.visited = @ \cup {stepName},
                                     !.sorted = Append(@, ss[i])]

\* for (const dep of step.dependsOn) visit(dep)
visitDeps(ss, st, deps, k) ==
  IF k > Len(deps) \/ st.error.kind # "none" THEN st
  ELSE visitDeps(ss, visit(ss, st, deps[k]), deps, k + 1)

RECURSIVE visitAll(_, _, _)
\* for (const step of this.steps) visit(step.name)
visitAll(ss, st, k) ==
  IF k > Len(ss) \/ st.error.kind # "none" THEN st
  ELSE visitAll(ss, visit(ss, st, ss[k].name), k + 1)

\* The steps in declaration order, unsorted and unchecked.
topologicalSort_declared(ss) == Ok(ss)

topologicalSort(ss) ==
  LET st == visitAll(ss, [sorted |-> <<>>, visited |-> {}, visiting |-> {},
                          error |-> NoError], 1)
  IN IF st.error.kind # "none" THEN [ok |-> FALSE, error |-> st.error]
     ELSE Ok(st.sorted)

\* ------------------------------------------------- provider key resolution
PROVIDER_ENV_VARS ==
  [p \in {"openai", "anthropic", "google", "xai", "groq", "together", "replicate"} |->
     CASE p = "openai" -> "OPENAI_API_KEY"
       [] p = "anthropic" -> "ANTHROPIC_API_KEY"
       [] p = "google" -> "GOOGLE_API_KEY"
       [] p = "xai" -> "XAI_API_KEY"
       [] p = "groq" -> "GROQ_API_KEY"
       [] p = "together" -> "TOGETHER_API_KEY"
       [] p = "replicate" -> "REPLICATE_API_KEY"]

\* A ProviderConfig object, or undefined (defined = FALSE).
NoConfig == [defined |-> FALSE, apiKey |-> Undef]
Config(key) == [defined |-> TRUE, apiKey |-> key]

\* obj?.[provider] on a map of ProviderConfig objects
ConfigOf(obj, provider) ==
  IF provider \in DOMAIN obj THEN Config(obj[provider].apiKey) ELSE NoConfig

\* runOptions is the RunOptions object, globals is globalConfig.providers,
\* environ is process.env.
resolveProviderConfig(provider, runOptions, globals, environ) ==
  IF ConfigOf(runOptions.providers, provider).defined
  THEN ConfigOf(runOptions.providers, provider)
  ELSE IF ConfigOf(globals, provider).defined
  THEN ConfigOf(globals, provider)
  ELSE LET envVarName == Lookup(PROVIDER_ENV_VARS, provider)
       IN IF Truthy(envVarName) /\ Truthy(Lookup(environ, envVarName))
          THEN Config(environ[envVarName])
          ELSE NoConfig

\* keylessProviders is KEYLESS_PROVIDERS of the configuration module in the
\* build: the set holding 'local', or no provider where the module has no
\* such set.
isProviderConfigured(provider, runOptions, globals, environ, keylessProviders) ==
  IF provider \in keylessProviders THEN TRUE
  ELSE LET config == resolveProviderConfig(provider, runOptions, globals, environ)
       IN config.defined /\ config.apiKey # Undef /\ config.apiKey # ""

\* Throws when some provider of the list has no usable key.
validateProvidersConfigured(providers, runOptions, globals, environ, keylessProviders) ==
  LET missing == {p \in providers :
                    ~isProviderConfigured(p, runOptions, globals, environ,
                                          keylessProviders)}
  IN IF missing # {} THEN Throw("MissingApiKeys", missing) ELSE Ok(TRUE)

RECURSIVE extractFrom(_, _, _)
extractFrom(ss, k, providers) ==
  IF k > Len(ss) THEN Ok(providers)
  ELSE IF ss[k].type = "ai" /\ ss[k].model # NoText
  THEN LET parsed == parseModel(ss[k].model)
       IN IF ~parsed.ok THEN parsed
          ELSE extractFrom(ss, k + 1, providers \cup {parsed.value[1]})
  ELSE extractFrom(ss, k + 1, providers)

\* Provider names of the AI steps; throws on the first malformed model.
extractProviders(ss) == extractFrom(ss, 1, {})

\* buildApiKeys() resolving every provider without the run options.
buildApiKeys_globalOnly(ss, runOptions, globals, environ) ==
  LET providers == extractProviders(ss)
      none == [providers |-> EmptyObj]
  IN IF ~providers.ok THEN providers
     ELSE Ok([p \in {q \in providers.value :
                       resolveProviderConfig(q, none, globals, environ).defined}
                |-> resolveProviderConfig(p, none, globals, environ).apiKey])

\* apiKeys[provider] = config.apiKey for every provider that resolves.
buildApiKeys(ss, runOptions, globals, environ) ==
  LET providers == extractProviders(ss)
  IN IF ~providers.ok THEN providers
     ELSE Ok([p \in {q \in providers.value :
                       resolveProviderConfig(q, runOptions, globals, environ).defined}
                |-> resolveProviderConfig(p, runOptions, globals, environ).apiKey])

\* ------------------------------------------------------- adapter executor
\* Providers for which defaultAdapterRegistry.get() returns an adapter.
Registered == {"openai", "anthropic", "google", "xai", "local"}

\* SDKAdapterExecutor.execute calling the adapter without looking at the key.
executorCheck_noKeyCheck(provider, apiKeys) ==
  IF ~Truthy(provider) THEN [call |-> FALSE, apiKey |-> Undef]
  ELSE IF provider \notin Registered THEN [call |-> FALSE, apiKey |-> Undef]
  ELSE [call |-> TRUE, apiKey |-> Lookup(apiKeys, provider)]

\* SDKAdapterExecutor.execute up to the call of adapter.execute: either the
\* adapter is called with apiKey, or a ValidationError result is returned.
executorCheck(provider, apiKeys) ==
  IF ~Truthy(provider) THEN [call |-> FALSE, apiKey |-> Undef]
  ELSE IF provider \notin Registered THEN [call |-> FALSE, apiKey |-> Undef]
  ELSE IF ~Truthy(Lookup(apiKeys, provider)) THEN [call |-> FALSE, apiKey |-> Undef]
  ELSE [call |-> TRUE, apiKey |-> apiKeys[provider]]

\* ------------------------------------------------------- result assembly
ErrorOf(error, stepName) ==
  [kind |-> error.kind, about |-> error.about, stepName |-> stepName]

NoResultError == ErrorOf(NoError, Undef)

\* A step log of the engine: {stepName, success, output}
StepLog(stepName, success, output) ==
  [stepName |-> stepName, success |-> success, output |-> output]

RECURSIVE outputsOf(_, _, _)
\* for (const stepLog of engineResult.steps) if (stepLog.output) ...
outputsOf(logs, k, acc) ==
  IF k > Len(logs) THEN acc
  ELSE outputsOf(logs, k + 1,
         IF Truthy(logs[k].output) THEN Assign(acc, logs[k].stepName, logs[k].output)
         ELSE acc)

\* engineResult.steps.find(log => !log.success), as an index (0: none)
FirstFailed(logs) ==
  LET bad == {i \in 1..Len(logs) : ~logs[i].success}
  IN IF bad = {} THEN 0 ELSE CHOOSE i \in bad : \A j \in bad : i <= j

convertResult(engineResult) ==
  LET failedStep == FirstFailed(engineResult.steps)
  IN [success |-> engineResult.success,
      steps |-> outputsOf(engineResult.steps, 1, EmptyObj),
      finalOutput |-> engineResult.finalOutput,
      error |-> IF engineResult.success THEN NoResultError
                ELSE IF failedStep = 0
                THEN [kind |-> "WorkflowExecutionFailed", about |-> {},
                      stepName |-> Undef]
                ELSE [kind |-> "StepError",
                      about |-> {engineResult.steps[failedStep].stepName},
                      stepName |-> engineResult.steps[failedStep].stepName]]

\* The result of the catch block of run() naming a step of its own choice.
caughtResult_named(error) ==
  [success |-> FALSE, steps |-> EmptyObj, finalOutput |-> Undef,
   error |-> ErrorOf(error, "a")]

\* The result built by the catch block of run().
caughtResult(error) ==
  [success |-> FALSE, steps |-> EmptyObj, finalOutput |-> Undef,
   error |-> ErrorOf(error, Undef)]

\* The errorResult of the loop without the name of the step that failed.
errorResult_noStepName(outputs, error, stepName) ==
  [success |-> FALSE, steps |-> outputs, finalOutput |-> Undef,
   error |-> ErrorOf(error, Undef)]

\* The errorResult of the loop carrying the last recorded output as
\* finalOutput.
errorResult_withFinalOutput(outputs, error, stepName) ==
  [success |-> FALSE, steps |-> outputs,
   finalOutput |-> IF DOMAIN outputs = {} THEN Undef
                   ELSE outputs[CHOOSE n \in DOMAIN outputs : TRUE],
   error |-> ErrorOf(error, stepName)]

\* The errorResult built by the catch block inside the loop of runWithMCP().
errorResult(outputs, error, stepName) ==
  [success |-> FALSE, steps |-> outputs, finalOutput |-> Undef,
   error |-> ErrorOf(error, stepName)]

\* The result built after the loop of runWithMCP().
finalResult(sorted, outputs) ==
  [success |-> TRUE, steps |-> outputs,
   finalOutput |-> IF Len(sorted) > 0 THEN Lookup(outputs, sorted[Len(sorted)].name)
                   ELSE Undef,
   error |-> NoResultError]

\* ------------------------------------------------------------------ state
VARIABLES
  steps,            \* this.steps of the builder on which run() is called
  globalProviders,  \* globalConfig.providers
  env,              \* process.env
  servers,          \* names of the servers of globalConfig.mcp.servers
  options,          \* the RunOptions passed to run()
  keyless,          \* KEYLESS_PROVIDERS of the configuration module in the build
  pc,               \* where the run() call stands
  sortedSteps,      \* runWithMCP: sortedSteps
  idx,              \* runWithMCP: position of the for loop in sortedSteps
  stepOutputs,      \* runWithMCP: stepOutputs
  eng,              \* the runWorkflow() call in flight
  result,           \* the WorkflowResult run() resolved with
  events,           \* history: what was dispatched, invoked, completed, failed
  pair,             \* two run() calls of the same builder going on together
  build,            \* builder values obtained by chained calls, and their steps
  telemetry,        \* the telemetry client: records offered, queued, delivered
  exec,             \* one call of the adapter executor taken by itself
  opt               \* the optimize module: one optimize() call, or the response cache

vars == <<steps, globalProviders, env, servers, options, keyless, pc, sortedSteps,
          idx, stepOutputs, eng, result, events, pair, build, telemetry, exec, opt>>

config == <<steps, globalProviders, env, servers, options, keyless>>

\* What the actions of a run() call leave alone.
runFrame == <<config, pair, build, exec, opt>>

Ev(ev, step, via, apiKey) ==
  [ev |-> ev, step |-> step, via |-> via, apiKey |-> apiKey, output |-> Undef,
   context |-> EmptyObj]

\* A step is started and handed the step outputs recorded so far.
EvDispatch(step, context) ==
  [Ev("dispatch", step, Undef, Undef) EXCEPT !.context = context]

\* The awaited call of a step returned output.
EvOk(step, via, output) == [Ev("ok", step, via, Undef) EXCEPT !.output = output]

\* The RunOptions object: per-run provider overrides, the abort signal, not
\* yet triggered, and no timeout (the optional field is the set of its values).
RunOptions(providers) ==
  [providers |-> providers, signal |-> [aborted |-> FALSE], timeout |-> {}]

NoResult ==
  [success |-> FALSE, steps |-> EmptyObj, finalOutput |-> Undef,
   error |-> [kind |-> "pending", about |-> {}, stepName |-> Undef]]

\* getTelemetryClient() returns undefined: telemetry is not enabled.
TelemetryOff ==
  [enabled |-> FALSE, client |-> FALSE, offered |-> <<>>, queue |-> <<>>, errors |-> 0,
   delivered |-> 0, dropped |-> 0]

\* No call of the adapter executor is being followed by itself.
ExecOff == [stage |-> "off"]

\* The optimize module is not being followed.
OptOff == [stage |-> "off"]

\* No builder chain is being followed.
BuildOff == [heap |-> <<>>, builders |-> <<>>, fresh |-> TRUE]

\* No pair of concurrent run() calls is being followed.
PairOff == [runs |-> <<>>, heap |-> <<>>]

EngineOff ==
  [stage |-> "off", mode |-> "none", order |-> <<>>, idx |-> 0, logs |-> <<>>,
   apiKeys |-> EmptyObj, error |-> NoError]

\* ------------------------------------------------- engine (runWorkflow)
\* The WorkflowStep run() and executeAIStep() hand to the engine.
WorkflowStep(step) ==
  LET parsed == parseModel(step.model)
  IN IF ~parsed.ok THEN parsed
     ELSE Ok([name |-> step.name, provider |-> parsed.value[1],
              model |-> parsed.value[2], dependsOn |-> step.dependsOn])

RECURSIVE workflowSteps(_, _, _)
\* this.steps.filter(step => step.type === 'ai').map(...)
workflowSteps(ss, k, acc) ==
  IF k > Len(ss) THEN Ok(acc)
  ELSE IF ss[k].type # "ai" THEN workflowSteps(ss, k + 1, acc)
  ELSE LET w == WorkflowStep(ss[k])
       IN IF ~w.ok THEN w ELSE workflowSteps(ss, k + 1, Append(acc, w.value))

\* The engine's scheduler: graph validity, then the order of execution.
engineSchedule(wfSteps) ==
  IF \E i, j \in 1..Len(wfSteps) : i # j /\ wfSteps[i].name = wfSteps[j].name
  THEN Throw("DuplicateStepName", {})
  ELSE topologicalSort(wfSteps)

\* runWorkflow(workflowDef, ...) is called for a whole workflow.
engineStart(wfSteps, apiKeys) ==
  LET sched == engineSchedule(wfSteps)
  IN [stage |-> "ready", mode |-> "full",
      order |-> IF sched.ok THEN sched.value ELSE <<>>,
      idx |-> 1, logs |-> <<>>, apiKeys |-> apiKeys,
      error |-> IF sched.ok THEN NoError ELSE sched.error]

\* runWorkflow is called for the one step of executeAIStep; whether the
\* engine accepts dependsOn names that are not steps of this one-step
\* workflow is the engine's choice (rejects).
engineStartSingle(wfStep, apiKeys, rejects) ==
  [stage |-> "ready", mode |-> "single", order |-> <<wfStep>>, idx |-> 1,
   logs |-> <<>>, apiKeys |-> apiKeys,
   error |-> IF rejects THEN [kind |-> "StepNotFound", about |-> Range(wfStep.dependsOn)]
             ELSE NoError]

RECURSIVE contextOf(_, _, _)
contextOf(logs, k, acc) ==
  IF k > Len(logs) THEN acc
  ELSE contextOf(logs, k + 1,
         IF logs[k].success THEN Assign(acc, logs[k].stepName, logs[k].output) ELSE acc)

\* The step context of the engine: the outputs of the steps it completed.
engineContext(e) == contextOf(e.logs, 1, EmptyObj)

\* What runWorkflow resolves or rejects with.
engineResult(e) ==
  IF e.error.kind # "none" THEN [ok |-> FALSE, error |-> e.error]
  ELSE LET success == \A i \in 1..Len(e.logs) : e.logs[i].success
       IN Ok([success |-> success, steps |-> e.logs,
              finalOutput |-> IF success /\ Len(e.logs) > 0
                              THEN e.logs[Len(e.logs)].output ELSE Undef])

\* --------------------------------------------------------------- run()
\* run() without its catch block: the exception leaves run().
runCatch_rethrow(error) == [pc |-> "thrown", result |-> NoResult]

\* Where an exception thrown inside the try block of run() ends: the catch
\* block returns a failed WorkflowResult.
runCatch(error) == [pc |-> "done", result |-> caughtResult(error)]

\* Where an exception thrown by a step inside the loop of runWithMCP() ends.
loopCatch(outputs, error, stepName) ==
  [pc |-> "done", result |-> errorResult(outputs, error, stepName)]

\* The run is over: run() resolved or rejected.
End(how, ev) ==
  /\ pc' = how.pc
  /\ result' = how.result
  /\ events' = events \o ev

\* recordSDKRun(): the TelemetryRun built from a WorkflowResult.
recordSDKRun(res) ==
  [status |-> IF res.success THEN "success" ELSE "failed",
   errorType |-> IF res.error.kind # "none" THEN "ExecutionError" ELSE Undef,
   steps |-> [n \in DOMAIN res.steps |->
                IF res.error.stepName = n THEN "failed" ELSE "success"]]

\* recordRun(): transformResult() of the engine's WorkflowRunResult.
transformResult(engineRes) ==
  [status |-> IF engineRes.success THEN "success" ELSE "failed",
   errorType |-> IF engineRes.success \/ FirstFailed(engineRes.steps) = 0 THEN Undef
                 ELSE "StepError",
   steps |-> [n \in {engineRes.steps[k].stepName : k \in 1..Len(engineRes.steps)} |->
                IF \E k \in 1..Len(engineRes.steps) :
                     engineRes.steps[k].stepName = n /\ ~engineRes.steps[k].success
                THEN "failed" ELSE "success"]]

\* getTelemetryClient() returns a client: the cached one (telemetry.client),
\* or a new one if isTelemetryEnabled() (telemetry.enabled).
getTelemetryClient == telemetry.client \/ telemetry.enabled

\* The telemetry client after the call telemetryClient.record...(r).catch(...)
\* made when getTelemetryClient() returned a client: the record is built and
\* enqueued, or building or enqueueing it threw (thrown), which the try/catch
\* of the client absorbs.
recordOutcome(record, thrown) ==
  IF ~getTelemetryClient THEN telemetry
  ELSE [telemetry EXCEPT !.client = TRUE,
                         !.offered = Append(@, record),
                         !.errors = IF thrown THEN @ + 1 ELSE @,
                         !.queue = IF thrown THEN @ ELSE Append(@, record)]

\* The run ends, and an exception thrown while the record is built or
\* enqueued reaches the catch block of run().
EndRecorded_unguarded(how, ev, record) ==
  \E thrown \in BOOLEAN :
    /\ telemetry' = recordOutcome(record, thrown)
    /\ IF thrown /\ telemetry.enabled
       THEN End(runCatch([kind |-> "TelemetryError", about |-> {}]), ev)
       ELSE End(how, ev)

\* The run ends with a result that is offered to the telemetry client on the
\* way: the call is not awaited and cannot throw.
EndRecorded(how, ev, record) ==
  \E thrown \in BOOLEAN :
    /\ telemetry' = recordOutcome(record, thrown)
    /\ End(how, ev)

\* The loop left through its catch block: the errorResult is offered to the
\* telemetry client.
RecordedFailure(settled, step) ==
  IF settled.ok THEN UNCHANGED telemetry
  ELSE \E thrown \in BOOLEAN :
         telemetry' = recordOutcome(
           recordSDKRun(loopCatch(stepOutputs, settled.error, step.name).result), thrown)

Returned(res) == [pc |-> "done", result |-> res]

\* runWithMCP(): topologicalSort(), then the for loop is entered.
EnterLoop ==
  LET sorted == topologicalSort(steps)
  IN IF sorted.ok
     THEN /\ pc' = "loop"
          /\ sortedSteps' = sorted.value
          /\ idx' = 1
          /\ UNCHANGED <<stepOutputs, eng, result, events>>
     ELSE /\ End(runCatch(sorted.error), <<>>)
          /\ UNCHANGED <<sortedSteps, idx, stepOutputs, eng>>

\* run() of a workflow without MCP steps, up to the call of runWorkflow().
RunAiOnly ==
  LET providers == extractProviders(steps)
      valid == validateProvidersConfigured(providers.value, options,
                                           globalProviders, env, keyless)
      wf == workflowSteps(steps, 1, <<>>)
      keys == buildApiKeys(steps, options, globalProviders, env)
      thrown == IF ~providers.ok THEN providers.error
                ELSE IF ~valid.ok THEN valid.error
                ELSE IF ~wf.ok THEN wf.error
                ELSE IF ~keys.ok THEN keys.error
                ELSE NoError
  IN IF thrown.kind # "none"
     THEN /\ End(runCatch(thrown), <<>>)
          /\ UNCHANGED <<sortedSteps, idx, stepOutputs, eng>>
     ELSE /\ pc' = "engine"
          /\ eng' = engineStart(wf.value, keys.value)
          /\ UNCHANGED <<sortedSteps, idx, stepOutputs, result, events>>

\* run(input, options) is called.
Run ==
  /\ pc = "idle"
  /\ IF \E i \in 1..Len(steps) : steps[i].type = "mcp"
     THEN IF servers # {}
          THEN /\ pc' = "mcp_load"
               /\ UNCHANGED <<sortedSteps, idx, stepOutputs, eng, result, events>>
          ELSE EnterLoop
     ELSE RunAiOnly
  /\ UNCHANGED telemetry
  /\ UNCHANGED runFrame

\* await mcpLoader.loadFromConfig(...) resolved.
McpLoaded ==
  /\ pc = "mcp_load"
  /\ EnterLoop
  /\ UNCHANGED telemetry
  /\ UNCHANGED runFrame

\* executeAIStep() up to the call of runWorkflow().
DispatchAI(step) ==
  LET w == WorkflowStep(step)
      keys == buildApiKeys(steps, options, globalProviders, env)
      thrown == IF ~w.ok THEN w.error
                ELSE IF ~keys.ok THEN keys.error
                ELSE NoError
  IN IF thrown.kind # "none"
     THEN /\ EndRecorded(loopCatch(stepOutputs, thrown, step.name),
                         <<EvDispatch(step.name, stepOutputs),
                           Ev("fail", step.name, Undef, Undef)>>,
                         recordSDKRun(loopCatch(stepOutputs, thrown, step.name).result))
          /\ UNCHANGED <<sortedSteps, idx, stepOutputs, eng>>
     ELSE /\ \E rejects \in (IF step.dependsOn = <<>> THEN {FALSE} ELSE BOOLEAN) :
               eng' = engineStartSingle(w.value, keys.value, rejects)
          /\ pc' = "engine"
          /\ events' = Append(events, EvDispatch(step.name, stepOutputs))
          /\ UNCHANGED <<sortedSteps, idx, stepOutputs, result, telemetry>>

\* executeMCPStep() calling mcpExecutor.execute() without awaiting it: the
\* loop goes on with the next step while the call is in flight.
DispatchMCP_noAwait(step) ==
  /\ pc' = "loop"
  /\ idx' = idx + 1
  /\ events' = events \o <<EvDispatch(step.name, stepOutputs),
                           Ev("invoke", step.name, "tool", Undef)>>
  /\ UNCHANGED <<sortedSteps, stepOutputs, eng, result, telemetry>>

\* executeMCPStep() calling the tool executor without looking the server up.
DispatchMCP_noServerCheck(step) ==
  LET parsed == parseMCPTool(step.mcpTool)
  IN IF ~parsed.ok
     THEN /\ EndRecorded(loopCatch(stepOutputs, parsed.error, step.name),
                         <<EvDispatch(step.name, stepOutputs),
                           Ev("fail", step.name, Undef, Undef)>>,
                         recordSDKRun(loopCatch(stepOutputs, parsed.error,
                                                step.name).result))
          /\ UNCHANGED <<sortedSteps, idx, stepOutputs, eng>>
     ELSE /\ pc' = "mcp_wait"
          /\ events' = events \o <<EvDispatch(step.name, stepOutputs),
                                   Ev("invoke", step.name, "tool", Undef)>>
          /\ UNCHANGED <<sortedSteps, idx, stepOutputs, eng, result, telemetry>>

\* executeMCPStep() up to the call of mcpExecutor.execute().
DispatchMCP(step) ==
  LET parsed == parseMCPTool(step.mcpTool)
      thrown == IF ~parsed.ok THEN parsed.error
                ELSE IF parsed.value[1] \notin servers
                THEN [kind |-> "McpServerNotFound", about |-> {parsed.value[1]}]
                ELSE NoError
  IN IF thrown.kind # "none"
     THEN /\ EndRecorded(loopCatch(stepOutputs, thrown, step.name),
                         <<EvDispatch(step.name, stepOutputs),
                           Ev("fail", step.name, Undef, Undef)>>,
                         recordSDKRun(loopCatch(stepOutputs, thrown, step.name).result))
          /\ UNCHANGED <<sortedSteps, idx, stepOutputs, eng>>
     ELSE /\ pc' = "mcp_wait"
          /\ events' = events \o <<EvDispatch(step.name, stepOutputs),
                                   Ev("invoke", step.name, "tool", Undef)>>
          /\ UNCHANGED <<sortedSteps, idx, stepOutputs, eng, result, telemetry>>

\* The body of the for loop of runWithMCP() starts its next step.
Dispatch ==
  /\ pc = "loop"
  /\ idx <= Len(sortedSteps)
  /\ IF sortedSteps[idx].type = "ai" THEN DispatchAI(sortedSteps[idx])
     ELSE DispatchMCP(sortedSteps[idx])
  /\ UNCHANGED runFrame

\* The for loop of runWithMCP() is over: the result is built and returned.
Finish ==
  /\ pc = "loop"
  /\ idx > Len(sortedSteps)
  /\ EndRecorded(Returned(finalResult(sortedSteps, stepOutputs)), <<>>,
                 recordSDKRun(finalResult(sortedSteps, stepOutputs)))
  /\ UNCHANGED <<sortedSteps, idx, stepOutputs, eng>>
  /\ UNCHANGED runFrame

\* The loop going on without recording the output of the step.
Continue_unrecorded(step, settled) ==
  IF settled.ok
  THEN /\ idx' = idx + 1
       /\ pc' = "loop"
       /\ UNCHANGED <<sortedSteps, stepOutputs, result>>
  ELSE /\ pc' = loopCatch(stepOutputs, settled.error, step.name).pc
       /\ result' = loopCatch(stepOutputs, settled.error, step.name).result
       /\ UNCHANGED <<sortedSteps, idx, stepOutputs>>

\* The loop going on with the next step after a step has failed.
Continue_pastFailure(step, settled) ==
  /\ stepOutputs' = IF settled.ok THEN Assign(stepOutputs, step.name, settled.value)
                    ELSE stepOutputs
  /\ idx' = idx + 1
  /\ pc' = "loop"
  /\ UNCHANGED <<sortedSteps, result>>

\* The loop trying a step once more after its first failure.
Continue_retry(step, settled) ==
  IF settled.ok
  THEN /\ stepOutputs' = Assign(stepOutputs, step.name, settled.value)
       /\ idx' = idx + 1
       /\ pc' = "loop"
       /\ UNCHANGED <<sortedSteps, result>>
  ELSE IF \A k \in 1..Len(events) : events[k].ev # "fail"
  THEN /\ pc' = "loop"
       /\ UNCHANGED <<sortedSteps, idx, stepOutputs, result>>
  ELSE /\ pc' = loopCatch(stepOutputs, settled.error, step.name).pc
       /\ result' = loopCatch(stepOutputs, settled.error, step.name).result
       /\ UNCHANGED <<sortedSteps, idx, stepOutputs>>

\* What the loop does once the awaited call of the current step has settled:
\* record the output and go on, or leave through the catch block.
Continue(step, settled) ==
  IF settled.ok
  THEN /\ stepOutputs' = Assign(stepOutputs, step.name, settled.value)
       /\ idx' = idx + 1
       /\ pc' = "loop"
       /\ UNCHANGED <<sortedSteps, result>>
  ELSE /\ pc' = loopCatch(stepOutputs, settled.error, step.name).pc
       /\ result' = loopCatch(stepOutputs, settled.error, step.name).result
       /\ UNCHANGED <<sortedSteps, idx, stepOutputs>>

ToolOutcomes ==
  {[kind |-> "success", output |-> o] : o \in Outputs}
  \cup {[kind |-> "failure", output |-> Undef], [kind |-> "throws", output |-> Undef]}

\* await mcpExecutor.execute(...) settled.
ToolSettle(outcome) ==
  /\ pc = "mcp_wait"
  /\ LET step == sortedSteps[idx]
         settled == IF outcome.kind = "success" THEN Ok(outcome.output)
                    ELSE IF outcome.kind = "failure"
                    THEN Throw("McpStepFailed", {step.name})
                    ELSE Throw("ToolExecutorError", {})
     IN /\ Continue(step, settled)
        /\ RecordedFailure(settled, step)
        /\ events' = Append(events,
             IF settled.ok THEN EvOk(step.name, "tool", settled.value)
             ELSE Ev("fail", step.name, "tool", Undef))
  /\ UNCHANGED eng
  /\ UNCHANGED runFrame

\* The engine takes the next step of its order and calls the adapter executor.
EngineDispatch ==
  /\ pc = "engine"
  /\ eng.stage = "ready"
  /\ eng.error.kind = "none"
  /\ eng.idx <= Len(eng.order)
  /\ LET st == eng.order[eng.idx]
         check == executorCheck(st.provider, eng.apiKeys)
         begun == IF eng.mode = "full"
                  THEN <<EvDispatch(st.name, engineContext(eng))>> ELSE <<>>
     IN IF check.call
        THEN /\ eng' = [eng EXCEPT !.stage = "wait"]
             /\ events' = events \o begun
                            \o <<Ev("invoke", st.name, "adapter", check.apiKey)>>
        ELSE /\ eng' = [eng EXCEPT !.stage = "failed",
                                   !.logs = Append(@, StepLog(st.name, FALSE, Undef))]
             /\ events' = events \o begun \o <<Ev("fail", st.name, Undef, Undef)>>
  /\ UNCHANGED <<pc, sortedSteps, idx, stepOutputs, result, telemetry>>
  /\ UNCHANGED runFrame

AdapterOutcomes ==
  {[kind |-> "success", output |-> o] : o \in Outputs}
  \cup {[kind |-> "failure", output |-> Undef], [kind |-> "throws", output |-> Undef]}

\* await adapter.execute(...) settled; a throw is normalized by the executor.
AdapterSettle(outcome) ==
  /\ pc = "engine"
  /\ eng.stage = "wait"
  /\ LET st == eng.order[eng.idx]
     IN IF outcome.kind = "success"
        THEN /\ eng' = [eng EXCEPT !.stage = "ready", !.idx = @ + 1,
                                   !.logs = Append(@, StepLog(st.name, TRUE, outcome.output))]
             /\ events' = Append(events, EvOk(st.name, "adapter", outcome.output))
        ELSE /\ eng' = [eng EXCEPT !.stage = "failed",
                                   !.logs = Append(@, StepLog(st.name, FALSE, Undef))]
             /\ events' = Append(events, Ev("fail", st.name, "adapter", Undef))
  /\ UNCHANGED <<pc, sortedSteps, idx, stepOutputs, result, telemetry>>
  /\ UNCHANGED runFrame

\* await runWorkflow(...) settled: run() converts the engine's result, or
\* executeAIStep() hands the step's output back to the loop.
EngineReturn ==
  /\ pc = "engine"
  /\ \/ eng.stage = "failed"
     \/ eng.stage = "ready" /\ (eng.error.kind # "none" \/ eng.idx > Len(eng.order))
  /\ LET r == engineResult(eng)
     IN IF eng.mode = "full"
        THEN /\ IF r.ok
                THEN EndRecorded(Returned(convertResult(r.value)), <<>>,
                                 transformResult(r.value))
                ELSE End(runCatch(r.error), <<>>) /\ UNCHANGED telemetry
             /\ UNCHANGED <<sortedSteps, idx, stepOutputs>>
        ELSE LET step == sortedSteps[idx]
                 settled == IF ~r.ok THEN r
                            ELSE IF ~r.value.success
                            THEN Throw("StepFailed", {step.name})
                            ELSE Ok(r.value.finalOutput)
             IN /\ Continue(step, settled)
                /\ RecordedFailure(settled, step)
                /\ events' = IF r.ok THEN events
                             ELSE Append(events, Ev("fail", step.name, Undef, Undef))
  /\ eng' = EngineOff
  /\ UNCHANGED runFrame

\* ------------------------------------------------------- specifications
InitRun ==
  /\ pc = "idle"
  /\ sortedSteps = <<>>
  /\ idx = 0
  /\ stepOutputs = EmptyObj
  /\ eng = EngineOff
  /\ result = NoResult
  /\ events = <<>>

\* A provider map holding the given key for openai, or nothing for it.
KeyMaps(keys) ==
  {EmptyObj} \cup {[p \in {"openai"} |-> [apiKey |-> k]] : k \in keys}

\* process.env with or without the variable of openai.
Environs == {EmptyObj, [v \in {"OPENAI_API_KEY"} |-> "k-env"]}

\* globalConfig.mcp.servers: none, the server the tool targets name, or
\* another one.
ServerSets == {{}, {"crm"}, {"db"}}

Init ==
  /\ steps \in Graphs
  /\ globalProviders \in KeyMaps({"k-global"})
  /\ env \in Environs
  /\ servers \in ServerSets
  /\ options \in {RunOptions(m) : m \in KeyMaps({"k-run"})}
  /\ keyless = {"local"}
  /\ InitRun
  /\ pair = PairOff
  /\ build = BuildOff
  /\ telemetry = TelemetryOff
  /\ exec = ExecOff
  /\ opt = OptOff

Next ==
  \/ Run
  \/ McpLoaded
  \/ Dispatch
  \/ Finish
  \/ \E outcome \in ToolOutcomes : ToolSettle(outcome)
  \/ EngineDispatch
  \/ \E outcome \in AdapterOutcomes : AdapterSettle(outcome)
  \/ EngineReturn

Spec == Init /\ [][Next]_vars

\* The scheduler alone: topologicalSort() applied to a step list.
Schedule ==
  /\ pc = "idle"
  /\ LET sorted == topologicalSort(steps)
     IN IF sorted.ok
        THEN /\ pc' = "sorted"
             /\ sortedSteps' = sorted.value
             /\ UNCHANGED result
        ELSE /\ pc' = "unsorted"
             /\ result' = caughtResult(sorted.error)
             /\ UNCHANGED sortedSteps
  /\ UNCHANGED <<idx, stepOutputs, eng, events, telemetry>>
  /\ UNCHANGED runFrame

InitSort ==
  /\ \E n \in 1..MaxSortSteps :
       /\ steps \in [1..n -> PlainStepsAt(MaxSortSteps)]
       /\ IsSortGraph(steps)
  /\ globalProviders = EmptyObj
  /\ env = EmptyObj
  /\ servers = {}
  /\ options = RunOptions(EmptyObj)
  /\ keyless = {"local"}
  /\ InitRun
  /\ pair = PairOff
  /\ build = BuildOff
  /\ telemetry = TelemetryOff
  /\ exec = ExecOff
  /\ opt = OptOff

NextSort == Schedule

SpecSort == InitSort /\ [][NextSort]_vars

\* ------------------------------------- two run() calls of one builder
\* Two calls run(input1), run(input2) of the same builder whose awaits
\* interleave; every step echoes the input of its run as its output.
Runs == {1, 2}
InputOf(r) == IF r = 1 THEN "in-1" ELSE "in-2"

\* One stepOutputs object that all calls of runWithMCP() share.
outputsOfRun_shared(r) == 1

\* const stepOutputs = {} inside runWithMCP(): the object of call r.
outputsOfRun(r) == r

RunIdle ==
  [pc |-> "idle", sortedSteps |-> <<>>, idx |-> 0, result |-> NoResult, seen |-> <<>>]

\* What the two calls leave alone.
pairFrame ==
  <<config, pc, sortedSteps, idx, stepOutputs, eng, result, events, build, telemetry,
    exec, opt>>

\* Workflows with a tool step and well-formed targets.
PairGraphs ==
  {g \in Graphs :
     /\ \E i \in 1..Len(g) : g[i].type = "mcp"
     /\ \A i \in 1..Len(g) : g[i].model \in {NoText, <<"openai", ":", "gpt">>}
     /\ \A i \in 1..Len(g) : g[i].mcpTool \in {NoText, <<"crm", ":", "search">>}}

\* Call r is over with the given result.
PairEnd(r, res) ==
  pair' = [pair EXCEPT !.runs[r].pc = "done", !.runs[r].result = res]

\* runWithMCP() of call r from the sort on: its stepOutputs object is
\* created and the for loop is entered.
PairEnterLoop(r) ==
  LET sorted == topologicalSort(steps)
  IN IF sorted.ok
     THEN pair' = [pair EXCEPT !.runs[r].pc = "loop",
                               !.runs[r].sortedSteps = sorted.value,
                               !.runs[r].idx = 1,
                               !.heap[outputsOfRun(r)] = EmptyObj]
     ELSE PairEnd(r, runCatch(sorted.error).result)

\* run(InputOf(r)) is called.
PairRun(r) ==
  /\ pair.runs[r].pc = "idle"
  /\ IF servers # {}
     THEN pair' = [pair EXCEPT !.runs[r].pc = "mcp_load"]
     ELSE PairEnterLoop(r)
  /\ UNCHANGED pairFrame

\* await mcpLoader.loadFromConfig(...) of call r resolved.
PairLoaded(r) ==
  /\ pair.runs[r].pc = "mcp_load"
  /\ PairEnterLoop(r)
  /\ UNCHANGED pairFrame

\* The loop of call r starts its next step: executeAIStep() or
\* executeMCPStep() up to the awaited call, which is handed stepOutputs.
PairDispatch(r) ==
  /\ pair.runs[r].pc = "loop"
  /\ pair.runs[r].idx <= Len(pair.runs[r].sortedSteps)
  /\ LET step == pair.runs[r].sortedSteps[pair.runs[r].idx]
         outputs == pair.heap[outputsOfRun(r)]
         w == WorkflowStep(step)
         keys == buildApiKeys(steps, options, globalProviders, env)
         parsed == parseMCPTool(step.mcpTool)
         thrown == IF step.type = "ai"
                   THEN IF ~w.ok THEN w.error
                        ELSE IF ~keys.ok THEN keys.error
                        ELSE IF ~executorCheck(w.value.provider, keys.value).call
                        THEN [kind |-> "StepFailed", about |-> {step.name}]
                        ELSE NoError
                   ELSE IF ~parsed.ok THEN parsed.error
                        ELSE IF parsed.value[1] \notin servers
                        THEN [kind |-> "McpServerNotFound", about |-> {parsed.value[1]}]
                        ELSE NoError
     IN IF thrown.kind # "none"
        THEN PairEnd(r, loopCatch(outputs, thrown, step.name).result)
        ELSE pair' = [pair EXCEPT !.runs[r].pc = "wait",
                                  !.runs[r].seen = Append(@, outputs)]
  /\ UNCHANGED pairFrame

\* The awaited call of the current step of call r settled.
PairSettle(r, ok) ==
  /\ pair.runs[r].pc = "wait"
  /\ LET step == pair.runs[r].sortedSteps[pair.runs[r].idx]
         outputs == pair.heap[outputsOfRun(r)]
     IN IF ok
        THEN pair' = [pair EXCEPT !.heap[outputsOfRun(r)] =
                                     Assign(outputs, step.name, InputOf(r)),
                                  !.runs[r].idx = @ + 1,
                                  !.runs[r].pc = "loop"]
        ELSE PairEnd(r, loopCatch(outputs, [kind |-> "StepFailed", about |-> {step.name}],
                                  step.name).result)
  /\ UNCHANGED pairFrame

\* The loop of call r is over: its result is built and returned.
PairFinish(r) ==
  /\ pair.runs[r].pc = "loop"
  /\ pair.runs[r].idx > Len(pair.runs[r].sortedSteps)
  /\ PairEnd(r, finalResult(pair.runs[r].sortedSteps, pair.heap[outputsOfRun(r)]))
  /\ UNCHANGED pairFrame

InitPair ==
  /\ steps \in PairGraphs
  /\ globalProviders \in KeyMaps({"k-global"})
  /\ env = EmptyObj
  /\ servers = {"crm"}
  /\ options = RunOptions(EmptyObj)
  /\ keyless = {"local"}
  /\ InitRun
  /\ pair = [runs |-> [r \in Runs |-> RunIdle], heap |-> [r \in Runs |-> EmptyObj]]
  /\ build = BuildOff
  /\ telemetry = TelemetryOff
  /\ exec = ExecOff
  /\ opt = OptOff

NextPair ==
  \/ \E r \in Runs : PairRun(r)
  \/ \E r \in Runs : PairLoaded(r)
  \/ \E r \in Runs : PairDispatch(r)
  \/ \E r \in Runs : \E ok \in BOOLEAN : PairSettle(r, ok)
  \/ \E r \in Runs : PairFinish(r)

SpecPair == InitPair /\ [][NextPair]_vars

\* --------------------------------------------------- the builder chain
\* Builder values are obtained one from another by chained calls. A builder
\* holds an array of references to step objects (build.heap); each builder
\* remembers the calls that produced it (chain) and the step list it showed
\* when it was obtained (snap).

\* A step object: the StepDefinition and config.systemPrompt.
StepObject(step, systemPrompt) == [step |-> step, systemPrompt |-> systemPrompt]

\* One call of the chain.
Call(op, name, target, deps) == [op |-> op, name |-> name, target |-> target, deps |-> deps]

\* The step list observable through a builder: this.steps, dereferenced.
View(heap, ids) == [i \in 1..Len(ids) |-> heap[ids[i]]]

\* The StepDefinition list of a builder, as run() reads it.
StepsOf(b) == [i \in 1..Len(b.ids) |-> build.heap[b.ids[i]].step]

Builder(kind, ids, chain, heap) ==
  [kind |-> kind, ids |-> ids, chain |-> chain, snap |-> View(heap, ids)]

\* What the calls of the chain leave alone.
buildFrame ==
  <<config, pc, sortedSteps, idx, stepOutputs, eng, result, events, pair, telemetry,
    exec, opt>>

\* A call returned a new builder value.
Obtained(heap, b) ==
  build' = [heap |-> heap, builders |-> Append(build.builders, b), fresh |-> TRUE]

\* createWorkflow(name)
CreateWorkflow ==
  /\ Len(build.builders) < MaxBuilders
  /\ Obtained(build.heap, Builder("base", <<>>, <<>>, build.heap))
  /\ UNCHANGED buildFrame

\* b.step(name).with(model) or b.step(name).mcp(tool).params(p): the
\* constructor appends a new step object to a copy of the array.
AddStep(k, step) ==
  LET b == build.builders[k]
      heap == Append(build.heap, StepObject(step, Undef))
      kind == IF step.type = "ai" THEN "withModel" ELSE "mcpParams"
      target == IF step.type = "ai" THEN step.model ELSE step.mcpTool
  IN /\ Len(build.builders) < MaxBuilders
     /\ Len(b.ids) < MaxSteps
     /\ Obtained(heap, Builder(kind, Append(b.ids, Len(heap)),
                               Append(b.chain, Call("step", step.name, target, <<>>)),
                               heap))
     /\ UNCHANGED buildFrame

\* depends(): allSteps = [...this.steps]; lastStep.dependsOn = deps. The
\* array is copied, the step object is not.
dependsOn(k, deps) ==
  LET b == build.builders[k]
      last == b.ids[Len(b.ids)]
  IN [heap |-> [build.heap EXCEPT ![last].step.dependsOn = deps], ids |-> b.ids]

\* b.depends(...deps) on the builder that .with() or .params() returned.
Depends(k, deps) ==
  LET b == build.builders[k]
      after == dependsOn(k, deps)
  IN /\ b.kind \in {"withModel", "mcpParams"}
     /\ Len(build.builders) < MaxBuilders
     /\ Obtained(after.heap,
                 Builder("base", after.ids,
                         Append(b.chain, Call("depends", Undef, <<>>, deps)), after.heap))
     /\ UNCHANGED buildFrame

\* b.prompt(text) on the builder that .with() returned: the array is copied,
\* the last step object gets config.systemPrompt.
PromptOfStep(k, text) ==
  LET b == build.builders[k]
      last == b.ids[Len(b.ids)]
      heap == [build.heap EXCEPT ![last].systemPrompt = text]
  IN /\ b.kind = "withModel"
     /\ Len(build.builders) < MaxBuilders
     /\ Obtained(heap, Builder("base", b.ids,
                               Append(b.chain, Call("prompt", text, <<>>, <<>>)), heap))
     /\ UNCHANGED buildFrame

\* b.prompt(text) of WorkflowBuilderImpl: the last step object, if any, gets
\* config.systemPrompt, and the call returns this.
PromptOfBuilder(k, text) ==
  LET b == build.builders[k]
  IN /\ b.kind \in {"base", "mcpParams"}
     /\ build' = [build EXCEPT
                    !.heap = IF Len(b.ids) > 0
                             THEN [@ EXCEPT ![b.ids[Len(b.ids)]].systemPrompt = text]
                             ELSE @,
                    !.fresh = FALSE]
     /\ UNCHANGED buildFrame

\* Steps the chain can add as the i-th step.
NewStepsAt(i) ==
  {AiStep(n, <<"openai", ":", "gpt">>, <<>>) : n \in NamesAt(i)}
  \cup {McpStep(n, <<"crm", ":", "search">>, <<>>) : n \in NamesAt(i)}

InitBuild ==
  /\ steps = <<>>
  /\ globalProviders = EmptyObj
  /\ env = EmptyObj
  /\ servers = {}
  /\ options = RunOptions(EmptyObj)
  /\ keyless = {"local"}
  /\ InitRun
  /\ pair = PairOff
  /\ build = [heap |-> <<>>, builders |-> <<Builder("base", <<>>, <<>>, <<>>)>>,
              fresh |-> TRUE]
  /\ telemetry = TelemetryOff
  /\ exec = ExecOff
  /\ opt = OptOff

NextBuild ==
  \/ CreateWorkflow
  \/ \E k \in 1..Len(build.builders) :
       \E step \in NewStepsAt(Len(build.builders[k].ids) + 1) : AddStep(k, step)
  \/ \E k \in 1..Len(build.builders) : \E deps \in DepLists : Depends(k, deps)
  \/ \E k \in 1..Len(build.builders) : PromptOfStep(k, "p")
  \/ \E k \in 1..Len(build.builders) : PromptOfBuilder(k, "p")

SpecBuild == InitBuild /\ [][NextBuild]_vars

\* ------------------------------------- cloud features of a builder chain
\* Every builder holds a reference to a CloudFeatures object (build.heap, a
\* set of the features set on it), the number of its steps, and the features
\* that were declared on this builder value or on the values it was obtained
\* from before it was obtained (declared).
CloudBuilder(cloud, n, declared) == [cloud |-> cloud, steps |-> n, declared |-> declared]

\* createWorkflow(name): new WorkflowBuilderImpl(name, [], {})
CloudCreateWorkflow ==
  /\ Len(build.builders) < MaxBuilders
  /\ build' = [build EXCEPT
                 !.heap = Append(@, {}),
                 !.builders = Append(@, CloudBuilder(Len(build.heap) + 1, 0, {}))]
  /\ UNCHANGED buildFrame

\* b.step(name).with(model): the constructors pass this.cloudFeatures on.
CloudAddStep(k) ==
  LET b == build.builders[k]
  IN /\ Len(build.builders) < MaxBuilders
     /\ b.steps < MaxSteps
     /\ build' = [build EXCEPT
                    !.builders = Append(@, CloudBuilder(b.cloud, b.steps + 1, b.declared))]
     /\ UNCHANGED buildFrame

\* b.webhook(endpoint) / b.schedule(cron): this.cloudFeatures.<feature> = ...;
\* return this.
declare(k, feature) ==
  LET b == build.builders[k]
  IN /\ feature \notin b.declared
     /\ build' = [build EXCEPT
                    !.heap[b.cloud] = @ \cup {feature},
                    !.builders[k].declared = @ \cup {feature},
                    !.fresh = FALSE]
     /\ UNCHANGED buildFrame

webhook(k) == declare(k, "webhook")

schedule(k) == declare(k, "schedule")

\* detectCloudIntent(this.cloudFeatures), as run() of builder k evaluates it.
detectCloudIntent(k) == build.heap[build.builders[k].cloud] # {}

InitCloud ==
  /\ steps = <<>>
  /\ globalProviders = EmptyObj
  /\ env = EmptyObj
  /\ servers = {}
  /\ options = RunOptions(EmptyObj)
  /\ keyless = {"local"}
  /\ InitRun
  /\ pair = PairOff
  /\ build = [heap |-> <<{}>>, builders |-> <<CloudBuilder(1, 0, {})>>, fresh |-> TRUE]
  /\ telemetry = TelemetryOff
  /\ exec = ExecOff
  /\ opt = OptOff

NextCloud ==
  \/ CloudCreateWorkflow
  \/ \E k \in 1..Len(build.builders) : CloudAddStep(k)
  \/ \E k \in 1..Len(build.builders) : webhook(k)
  \/ \E k \in 1..Len(build.builders) : schedule(k)

SpecCloud == InitCloud /\ [][NextCloud]_vars

\* ------------------------------------------------- graphs, independently
\* The step a dependency name refers to: the first step declared with it.
Referent(ss, name) ==
  IF \E i \in 1..Len(ss) : ss[i].name = name
  THEN CHOOSE i \in 1..Len(ss) :
         ss[i].name = name /\ \A j \in 1..(i - 1) : ss[j].name # name
  ELSE 0

\* Steps that step i depends on directly.
DependsDirectly(ss, i) == {Referent(ss, d) : d \in Range(ss[i].dependsOn)} \ {0}

RECURSIVE DependsWithin(_, _, _)
\* Steps reached from the set S along at most n dependency edges (n >= 1).
DependsWithin(ss, S, n) ==
  LET next == UNION {DependsDirectly(ss, i) : i \in S}
  IN IF n <= 1 THEN next ELSE next \cup DependsWithin(ss, next, n - 1)

HasCycle(ss) == \E i \in 1..Len(ss) : i \in DependsWithin(ss, {i}, Len(ss))

DepsDeclared(ss) ==
  \A i \in 1..Len(ss) : \A d \in Range(ss[i].dependsOn) : Referent(ss, d) # 0

UniqueNames(ss) == \A i, j \in 1..Len(ss) : ss[i].name = ss[j].name => i = j

\* ------------------------------------- runs over several providers
\* Runs of well-formed workflows whose AI steps use a provider that needs a
\* key (openai, anthropic) or the provider of local models, under both
\* configuration modules of the source tree: the one whose
\* isProviderConfigured exempts KEYLESS_PROVIDERS and the one without it.
CredModels ==
  { <<"openai", ":", "gpt">>, <<"anthropic", ":", "claude">>, <<"local", ":", "llama">> }

\* At most one name per .depends(...) call.
CredDeps == {<<>>} \cup {<<n>> : n \in NameSet}

\* The i-th step of such a workflow; its name is the i-th name.
CredStepsAt(i) ==
  {AiStep(n, m, d) : n \in NamesAt(i) \ NamesAt(i - 1), m \in CredModels, d \in CredDeps}
  \cup {McpStep(n, <<"crm", ":", "search">>, d) :
          n \in NamesAt(i) \ NamesAt(i - 1), d \in CredDeps}

RECURSIVE CredListsOf(_)
CredListsOf(n) ==
  IF n = 0 THEN {<<>>}
  ELSE {Append(l, s) : l \in CredListsOf(n - 1), s \in CredStepsAt(n)}

CredGraphs ==
  {g \in UNION {CredListsOf(n) : n \in 1..MaxSteps} :
     UniqueNames(g) /\ DepsDeclared(g) /\ ~HasCycle(g)}

\* globalConfig.providers holding a key for some of openai and anthropic.
CredKeyMaps ==
  {[p \in P |-> [apiKey |-> "k-global"]] : P \in SUBSET {"openai", "anthropic"}}

InitCred ==
  /\ steps \in CredGraphs
  /\ globalProviders \in CredKeyMaps
  /\ env = EmptyObj
  /\ servers \in ServerSets
  /\ options \in {RunOptions(m) : m \in KeyMaps({"k-run"})}
  /\ keyless \in {{}, {"local"}}
  /\ InitRun
  /\ pair = PairOff
  /\ build = BuildOff
  /\ telemetry = TelemetryOff
  /\ exec = ExecOff
  /\ opt = OptOff

SpecCred == InitCred /\ [][Next]_vars

\* ------------------------------------- runs with the abort signal
\* The caller triggers options.signal while the run is going on.
Abort ==
  /\ pc \notin {"idle", "done", "thrown"}
  /\ ~options.signal.aborted
  /\ options' = [options EXCEPT !.signal.aborted = TRUE]
  /\ events' = Append(events, Ev("abort", Undef, Undef, Undef))
  /\ UNCHANGED <<steps, globalProviders, env, servers, keyless, pc, sortedSteps, idx,
                 stepOutputs, eng, result, pair, build, telemetry, exec, opt>>

InitAbort ==
  /\ steps \in CredGraphs
  /\ globalProviders \in CredKeyMaps
  /\ env = EmptyObj
  /\ servers = {"crm"}
  /\ options = RunOptions(EmptyObj)
  /\ keyless = {"local"}
  /\ InitRun
  /\ pair = PairOff
  /\ build = BuildOff
  /\ telemetry = TelemetryOff
  /\ exec = ExecOff
  /\ opt = OptOff

NextAbort ==
  \/ Next
  \/ Abort

SpecAbort == InitAbort /\ [][NextAbort]_vars

\* ------------------------------------- runs with telemetry
\* The background worker takes the oldest record of its queue and uploads
\* it; the upload succeeds or the record is given up.
Deliver(ok) ==
  /\ telemetry.queue # <<>>
  /\ telemetry' = [telemetry EXCEPT
                     !.queue = Tail(@),
                     !.delivered = IF ok THEN @ + 1 ELSE @,
                     !.dropped = IF ok THEN @ ELSE @ + 1]
  /\ UNCHANGED <<config, pc, sortedSteps, idx, stepOutputs, eng, result, events, pair,
                 build, exec, opt>>

\* isTelemetryEnabled() decides whether the client has a worker.
InitTelemetry ==
  /\ steps \in CredGraphs
  /\ globalProviders \in CredKeyMaps
  /\ env = EmptyObj
  /\ servers \in ServerSets
  /\ options = RunOptions(EmptyObj)
  /\ keyless = {"local"}
  /\ InitRun
  /\ pair = PairOff
  /\ build = BuildOff
  /\ telemetry \in {[TelemetryOff EXCEPT !.enabled = b] : b \in BOOLEAN}
  /\ exec = ExecOff
  /\ opt = OptOff

NextTelemetry ==
  \/ Next
  \/ \E ok \in BOOLEAN : Deliver(ok)

SpecTelemetry == InitTelemetry /\ [][NextTelemetry]_vars

\* ------------------------------------- runs with a timeout
\* Time is counted in ticks of the clock; a tick passes while the run waits
\* for an adapter or a tool.
MaxTicks == 3

\* options.timeout, in ticks.
Timeouts == {1, 2}

\* The ticks that passed after the first `from` events of the run.
Ticks(from) == Cardinality({k \in (from + 1)..Len(events) : events[k].ev = "tick"})

\* The event with which the engine run in progress began: runWorkflow() is
\* called once per run without tool steps and once per AI step otherwise.
EngineStartedAt ==
  IF eng.mode = "full" THEN 0
  ELSE CHOOSE k \in 1..Len(events) :
         /\ events[k].ev = "dispatch"
         /\ \A j \in (k + 1)..Len(events) : events[j].ev # "dispatch"

\* A tick passes during an awaited call. The engine was handed
\* options.timeout and ends its run when the time is up, so no tick passes
\* beyond it inside one engine run; the tool executor is handed no timeout.
Tick ==
  /\ Ticks(0) < MaxTicks
  /\ \/ pc = "mcp_wait"
     \/ /\ pc = "engine"
        /\ eng.stage = "wait"
        /\ \A t \in options.timeout : Ticks(EngineStartedAt) < t
  /\ events' = Append(events, Ev("tick", Undef, Undef, Undef))
  /\ UNCHANGED <<config, pc, sortedSteps, idx, stepOutputs, eng, result, pair, build,
                 telemetry, exec, opt>>

InitTimeout ==
  /\ steps \in CredGraphs
  /\ globalProviders = [p \in {"openai", "anthropic"} |-> [apiKey |-> "k-global"]]
  /\ env = EmptyObj
  /\ servers = {"crm"}
  /\ options \in {[RunOptions(EmptyObj) EXCEPT !.timeout = {t}] : t \in Timeouts}
  /\ keyless = {"local"}
  /\ InitRun
  /\ pair = PairOff
  /\ build = BuildOff
  /\ telemetry = TelemetryOff
  /\ exec = ExecOff
  /\ opt = OptOff

NextTimeout ==
  \/ Next
  \/ Tick

SpecTimeout == InitTimeout /\ [][NextTimeout]_vars

\* ------------------------------------- configuring between runs
\* configure() and resetConfig() are called before the run that is followed;
\* runs made earlier in the process count only by what they leave behind in
\* the telemetry client.
MaxConfigCalls == 3

\* The telemetry member of a configure() argument: absent, enabled with
\* endpoint and key, or disabled.
TelemetrySettings == {"absent", "enabled", "disabled"}

\* configure(config): providers are merged, telemetry is replaced if given.
configure(providers, setting) ==
  /\ pc = "idle"
  /\ Len(events) < MaxConfigCalls
  /\ globalProviders' = [p \in DOMAIN globalProviders \cup DOMAIN providers |->
                           IF p \in DOMAIN providers THEN providers[p]
                           ELSE globalProviders[p]]
  /\ telemetry' = [telemetry EXCEPT
                     !.enabled = IF setting = "absent" THEN @ ELSE setting = "enabled"]
  /\ events' = Append(events, Ev("configure", Undef, Undef, Undef))
  /\ UNCHANGED <<steps, env, servers, options, keyless, pc, sortedSteps, idx, stepOutputs,
                 eng, result, pair, build, exec, opt>>

\* resetConfig(): globalConfig is replaced by the default object. The event
\* notes how many records had been offered to the telemetry client so far.
resetConfig ==
  /\ pc = "idle"
  /\ Len(events) < MaxConfigCalls
  /\ globalProviders' = EmptyObj
  /\ servers' = {}
  /\ telemetry' = [telemetry EXCEPT !.enabled = FALSE]
  /\ events' = Append(events, [Ev("resetConfig", Undef, Undef, Undef) EXCEPT
                                 !.output = Len(telemetry.offered)])
  /\ UNCHANGED <<steps, env, options, keyless, pc, sortedSteps, idx, stepOutputs, eng,
                 result, pair, build, exec, opt>>

\* An earlier run() call got as far as its telemetry call: it asked for the
\* client and handed it the record of a successful run.
EarlierRun ==
  /\ pc = "idle"
  /\ Len(events) < MaxConfigCalls
  /\ telemetry' = recordOutcome([status |-> "success", errorType |-> Undef,
                                 steps |-> EmptyObj], FALSE)
  /\ events' = Append(events, Ev("run", Undef, Undef, Undef))
  /\ UNCHANGED <<config, pc, sortedSteps, idx, stepOutputs, eng, result, pair, build,
                 exec, opt>>

InitConfig ==
  /\ steps = <<AiStep("a", <<"openai", ":", "gpt">>, <<>>)>>
  /\ globalProviders = EmptyObj
  /\ env = EmptyObj
  /\ servers = {}
  /\ options \in {RunOptions(m) : m \in KeyMaps({"k-run"})}
  /\ keyless = {"local"}
  /\ InitRun
  /\ pair = PairOff
  /\ build = BuildOff
  /\ telemetry = TelemetryOff
  /\ exec = ExecOff
  /\ opt = OptOff

NextConfig ==
  \/ \E providers \in KeyMaps({"k-global"}) : \E setting \in TelemetrySettings :
       configure(providers, setting)
  \/ resetConfig
  \/ EarlierRun
  \/ Run
  \/ EngineDispatch
  \/ \E outcome \in AdapterOutcomes : AdapterSettle(outcome)
  \/ EngineReturn

SpecConfig == InitConfig /\ [][NextConfig]_vars

\* ------------------------------------- the adapter executor by itself
\* One call of SDKAdapterExecutor.execute(args), for both copies of the
\* executor in the source tree: "apiKeys" takes a map of key strings,
\* "configs" takes a map of provider configs and knows KEYLESS_PROVIDERS.
ExecReleases == {"apiKeys", "configs"}

\* args.stepMetadata?.provider
ExecProviders == {Undef, "openai", "local", "mistral"}

\* The key the executor was given for the provider, if any.
ExecKeys == {Undef, "", "k"}

\* What registry.get(provider) does: returns an adapter, returns undefined,
\* throws MissingPeerDependencyError, throws something else.
RegistryOutcomes == {"adapter", "none", "throwsMissingPeer", "throws"}

\* What was thrown: an object with type and message, an Error, another value.
Structured(type, message) == [shape |-> "structured", type |-> type, message |-> message]
ErrorObject(message) == [shape |-> "Error", type |-> Undef, message |-> message]
Thrown(value) == [shape |-> "value", type |-> Undef, message |-> value]
Nothing == [shape |-> "none", type |-> Undef, message |-> Undef]

\* What adapter.execute(...) does: resolves with a result, or rejects.
AdapterBehaviours ==
  {[kind |-> "returns", success |-> TRUE, error |-> Nothing],
   [kind |-> "returns", success |-> FALSE, error |-> Structured("ProviderError", "bad")],
   [kind |-> "throws", success |-> FALSE, error |-> ErrorObject("API error")],
   [kind |-> "throws", success |-> FALSE, error |-> ErrorObject("rate limit")],
   [kind |-> "throws", success |-> FALSE, error |-> Structured("TimeoutError", "slow")],
   [kind |-> "throws", success |-> FALSE, error |-> Thrown("oops")]}

normalizeError(error) ==
  IF error.shape = "structured" THEN [type |-> error.type, message |-> error.message]
  ELSE IF error.shape = "Error"
  THEN [type |-> IF error.message = "rate limit" THEN "RateLimitError" ELSE "ProviderError",
        message |-> error.message]
  ELSE [type |-> "UnknownError", message |-> error.message]

\* An AdapterResult.
AdapterFailure(type, message) ==
  [success |-> FALSE, error |-> [type |-> type, message |-> message]]
AdapterSuccess == [success |-> TRUE, error |-> [type |-> Undef, message |-> Undef]]

\* The outcome of one call: whether adapter.execute was called, and what the
\* returned promise settles with.
NotCalled(settled) == [called |-> FALSE, out |-> settled]
Called(settled) == [called |-> TRUE, out |-> settled]

\* What the executor returns once adapter.execute has settled.
adapterResult(adapter) ==
  IF adapter.kind = "returns" /\ adapter.success THEN AdapterSuccess
  ELSE [success |-> FALSE, error |-> normalizeError(adapter.error)]

\* SDKAdapterExecutor.execute calling the adapter without looking at the key.
execute_noKeyCheck(release, provider, key, registry, adapter) ==
  IF ~Truthy(provider)
  THEN NotCalled(Ok(AdapterFailure("ValidationError", "provider")))
  ELSE IF registry = "throwsMissingPeer"
  THEN IF release = "configs"
       THEN NotCalled(Ok(AdapterFailure("MissingDependencyError", "peer")))
       ELSE NotCalled(Throw("MissingPeerDependencyError", {provider}))
  ELSE IF registry = "throws" THEN NotCalled(Throw("RegistryError", {provider}))
  ELSE IF registry = "none" THEN NotCalled(Ok(AdapterFailure("ValidationError", "adapter")))
  ELSE Called(Ok(adapterResult(adapter)))

\* SDKAdapterExecutor.execute
execute(release, provider, key, registry, adapter) ==
  IF ~Truthy(provider)
  THEN NotCalled(Ok(AdapterFailure("ValidationError", "provider")))
  ELSE IF registry = "throwsMissingPeer"
  THEN IF release = "configs"
       THEN NotCalled(Ok(AdapterFailure("MissingDependencyError", "peer")))
       ELSE NotCalled(Throw("MissingPeerDependencyError", {provider}))
  ELSE IF registry = "throws" THEN NotCalled(Throw("RegistryError", {provider}))
  ELSE IF registry = "none" THEN NotCalled(Ok(AdapterFailure("ValidationError", "adapter")))
  ELSE IF ~Truthy(key) /\ ~(release = "configs" /\ provider = "local")
  THEN NotCalled(Ok(AdapterFailure("ValidationError", "key")))
  ELSE Called(Ok(adapterResult(adapter)))

\* The call is made and its promise settles.
Execute ==
  /\ exec.stage = "call"
  /\ LET e == execute(exec.release, exec.provider, exec.key, exec.registry, exec.adapter)
     IN exec' = [exec EXCEPT !.stage = "settled", !.called = e.called, !.out = e.out]
  /\ UNCHANGED <<config, pc, sortedSteps, idx, stepOutputs, eng, result, events, pair,
                 build, telemetry, opt>>

InitExec ==
  /\ steps = <<>>
  /\ globalProviders = EmptyObj
  /\ env = EmptyObj
  /\ servers = {}
  /\ options = RunOptions(EmptyObj)
  /\ keyless = {"local"}
  /\ InitRun
  /\ pair = PairOff
  /\ build = BuildOff
  /\ telemetry = TelemetryOff
  /\ opt = OptOff
  /\ exec \in {[stage |-> "call", release |-> r, provider |-> p, key |-> k,
                registry |-> g, adapter |-> a, called |-> FALSE,
                out |-> Ok(AdapterSuccess)] :
                 r \in ExecReleases, p \in ExecProviders, k \in ExecKeys,
                 g \in RegistryOutcomes, a \in AdapterBehaviours}

NextExec == Execute

SpecExec == InitExec /\ [][NextExec]_vars

\* ------------------------------------------------------------------ C1
\* C1: for a graph without a dependency cycle (all dependencies declared) the
\* scheduler produces an order; in every order it produces each listed step
\* comes strictly after all steps named in its dependsOn, every step name of
\* the graph is listed once, and with unique names every step is listed.
C1_OrderRespectsDependsOn ==
  /\ (pc \in {"sorted", "unsorted"} /\ ~HasCycle(steps) /\ DepsDeclared(steps))
       => pc = "sorted"
  /\ pc = "sorted" =>
       /\ \A i \in 1..Len(sortedSteps) : \A d \in Range(sortedSteps[i].dependsOn) :
            \E j \in 1..(i - 1) : sortedSteps[j].name = d
       /\ \A k \in 1..Len(steps) :
            Cardinality({i \in 1..Len(sortedSteps) :
                           sortedSteps[i].name = steps[k].name}) = 1
       /\ UniqueNames(steps) =>
            \A k \in 1..Len(steps) : \E i \in 1..Len(sortedSteps) : sortedSteps[i] = steps[k]

\* A three-step graph declared out of dependency order was scheduled.
C1_Witness ==
  /\ pc = "sorted"
  /\ Len(sortedSteps) = 3
  /\ sortedSteps # steps
  /\ \E i \in 1..3 : Len(sortedSteps[i].dependsOn) = 2

\* ------------------------------------------------- reading the history
EventsOf(kind) == {k \in 1..Len(events) : events[k].ev = kind}

\* Names of the steps that completed, failed, were dispatched.
Completed == {events[k].step : k \in EventsOf("ok")}
Failed == {events[k].step : k \in EventsOf("fail")}

\* No step was started and no adapter or tool executor was called.
NothingExecuted == EventsOf("dispatch") = {} /\ EventsOf("invoke") = {}

HasMcpStep == \E i \in 1..Len(steps) : steps[i].type = "mcp"

GraphValidityErrors ==
  {"CircularDependency", "StepNotFound", "DuplicateStepName",
   "InvalidModelFormat", "InvalidMCPToolFormat"}

C3_FailedRunKeepsCompletedSteps ==
  (pc = "done" /\ ~result.success /\ Failed # {}) =>
    DOMAIN result.steps = Completed

\* ------------------------------------------------------------------ C4
\* C4: after a successful run the keys of result.steps are exactly the step
\* names of the graph.
C4_SuccessListsAllSteps ==
  (pc = "done" /\ result.success) =>
    DOMAIN result.steps = {steps[i].name : i \in 1..Len(steps)}

\* ------------------------------------------------------------------ C5
\* The step executed last: the step of the last completion in the history.
LastCompleted ==
  events[CHOOSE k \in EventsOf("ok") : \A j \in EventsOf("ok") : j <= k].step

\* C5: after a successful run result.finalOutput is result.steps[last step
\* in execution order].
C5_FinalOutputIsLastStep ==
  (pc = "done" /\ result.success /\ EventsOf("ok") # {}) =>
    result.finalOutput = Lookup(result.steps, LastCompleted)

\* ------------------------------------------------------------------ C6
\* C6: once a step of the run has failed, no further step is started and no
\* further adapter or tool executor is called.
C6_NothingAfterFailure ==
  [][Failed # {} =>
       /\ Cardinality(EventsOf("dispatch")') = Cardinality(EventsOf("dispatch"))
       /\ Cardinality(EventsOf("invoke")') = Cardinality(EventsOf("invoke"))]_vars

\* The first step of a two-step mixed workflow failed in its tool, and the
\* run ended without the second step.
C6_Witness ==
  /\ pc = "done"
  /\ Len(sortedSteps) = 2
  /\ sortedSteps[1].type = "mcp" /\ sortedSteps[2].type = "ai"
  /\ Failed = {sortedSteps[1].name}
  /\ Cardinality(EventsOf("dispatch")) = 1

\* ------------------------------------------------------------------ C7
\* C7: when a step is dispatched, every step named in its dependsOn has
\* completed successfully earlier in the same run.
C7_DispatchedAfterDependencies ==
  \A k \in EventsOf("dispatch") :
    \A d \in Range(steps[Referent(steps, events[k].step)].dependsOn) :
      \E j \in 1..(k - 1) : events[j].ev = "ok" /\ events[j].step = d

\* A step declared first but depending on the second ran after it.
C7_Witness ==
  /\ pc = "done" /\ result.success
  /\ Len(steps) = 2
  /\ steps[1].type = "mcp" /\ steps[2].type = "ai"
  /\ steps[1].dependsOn = <<steps[2].name>>
  /\ sortedSteps = <<steps[2], steps[1]>>

\* ------------------------------------------------------------------ C8
\* C8: a graph in which some dependsOn names a step that was never added is
\* rejected before any step executes: no adapter and no tool executor is
\* called for it and its run fails.
C8_UndeclaredDependencyRejected ==
  ~DepsDeclared(steps) =>
    /\ EventsOf("invoke") = {}
    /\ pc = "done" => ~result.success

\* ------------------------------------------------------------------ C9
HasKey(obj, name) == name \in DOMAIN obj

\* The key the three tiers yield for openai, by the stated precedence.
ExpectedKey ==
  IF HasKey(options.providers, "openai") THEN "k-run"
  ELSE IF HasKey(globalProviders, "openai") THEN "k-global"
  ELSE IF HasKey(env, "OPENAI_API_KEY") THEN "k-env"
  ELSE Undef

\* A graph with unique names, declared dependencies, no cycle and
\* well-formed targets.
WellFormed(ss) ==
  /\ UniqueNames(ss) /\ DepsDeclared(ss) /\ ~HasCycle(ss)
  /\ \A i \in 1..Len(ss) :
       IF ss[i].type = "ai" THEN ss[i].model = <<"openai", ":", "gpt">>
       ELSE ss[i].mcpTool = <<"crm", ":", "search">>

StepType(name) == steps[Referent(steps, name)].type

\* C9: the adapter of an openai step receives the per-run key, else the
\* global key, else the environment key; and when no tier has a key, the run
\* of a well-formed workflow with an openai step, none of whose tool steps
\* failed, fails with the missing-key error that names openai.
C9_KeyPrecedenceAndMissingKey ==
  /\ \A k \in EventsOf("invoke") :
       events[k].via = "adapter" => events[k].apiKey = ExpectedKey
  /\ ( /\ pc = "done"
       /\ ExpectedKey = Undef
       /\ WellFormed(steps)
       /\ \E i \in 1..Len(steps) : steps[i].type = "ai"
       /\ \A n \in Failed : StepType(n) = "ai" )
     => ( /\ ~result.success
          /\ result.error.kind = "MissingApiKeys"
          /\ "openai" \in result.error.about )

FirstFailure ==
  events[CHOOSE k \in EventsOf("fail") : \A j \in EventsOf("fail") : k <= j].step

\* C11: a failed run in which a step failed reports in error.stepName the
\* step that was being executed when the run stopped, the first and only
\* failure of the run; a run that failed before any step reports no step.
C11_ErrorNamesFailedStep ==
  (pc = "done" /\ ~result.success) =>
    /\ Cardinality(EventsOf("fail")) <= 1
    /\ IF Failed = {} THEN result.error.stepName = Undef
       ELSE /\ result.error.stepName = FirstFailure
            /\ events[Len(events)].ev = "fail"

\* The second of two scheduled steps failed after the first had completed.
C11_Witness ==
  /\ pc = "done" /\ ~result.success
  /\ Len(sortedSteps) = 2
  /\ sortedSteps[1].name # sortedSteps[2].name
  /\ Completed = {sortedSteps[1].name}
  /\ Failed = {sortedSteps[2].name}
  /\ result.error.stepName = sortedSteps[2].name

\* ----------------------------------------------------------------- C12
\* Calls of an adapter or a tool executor that have settled.
Settled == {k \in 1..Len(events) : events[k].ev \in {"ok", "fail"} /\ events[k].via # Undef}

\* C12: between two calls of an adapter or tool executor in one run the
\* earlier call has settled, so at most one call is in flight at any time.
C12_NoOverlappingCalls ==
  /\ \A k, l \in EventsOf("invoke") :
       k < l => \E j \in Settled : k < j /\ j < l /\ events[j].step = events[k].step
  /\ Cardinality(EventsOf("invoke")) - Cardinality(Settled) \in {0, 1}

\* Two steps ran, a tool step and an AI step, one call after the other.
C12_Witness ==
  /\ pc = "done" /\ result.success
  /\ Cardinality(EventsOf("invoke")) = 2
  /\ {events[k].via : k \in EventsOf("invoke")} = {"tool", "adapter"}

\* ----------------------------------------------------------------- C13
\* C13: of two run() calls of one workflow going on together with different
\* inputs, each sees in the step outputs handed to its steps, and returns in
\* its result, only outputs that its own steps produced: the outputs of the
\* steps it has completed, and nothing of the other call.
C13_ConcurrentRunsIndependent ==
  \A r \in DOMAIN pair.runs :
    LET run == pair.runs[r]
        names(n) == {run.sortedSteps[i].name : i \in 1..n}
    IN /\ \A k \in 1..Len(run.seen) :
            \A n \in DOMAIN run.seen[k] : run.seen[k][n] = InputOf(r)
       /\ (run.pc = "wait") => DOMAIN run.seen[Len(run.seen)] = names(run.idx - 1)
       /\ (run.pc = "done") =>
            /\ \A n \in DOMAIN run.result.steps : run.result.steps[n] = InputOf(r)
            /\ run.result.finalOutput \in {Undef, InputOf(r)}
            /\ run.result.success =>
                 DOMAIN run.result.steps = names(Len(run.sortedSteps))

\* Both calls are waiting for their second step, each having recorded the
\* output of its first.
C13_Witness ==
  /\ DOMAIN pair.runs = Runs
  /\ \A r \in Runs :
       /\ pair.runs[r].pc = "wait"
       /\ pair.runs[r].idx = 2
       /\ pair.runs[r].sortedSteps[1].name # pair.runs[r].sortedSteps[2].name
       /\ Len(pair.runs[r].seen) = 2
       /\ DOMAIN pair.runs[r].seen[2] = {pair.runs[r].sortedSteps[1].name}

\* ----------------------------------------------------------------- C14
\* C14: every call of the builder chain returns a new builder value, and the
\* step list seen through any builder value obtained before is what it was
\* when that value was obtained, dependsOn and config included.
C14_BuilderValuesImmutable ==
  /\ build.fresh
  /\ \A k \in 1..Len(build.builders) :
       View(build.heap, build.builders[k].ids) = build.builders[k].snap

\* ----------------------------------------------------------------- C15
\* C15: the step names of every step list a builder value holds, and so of
\* every graph handed to the scheduler, are pairwise distinct.
C15_StepNamesUnique ==
  \A k \in 1..Len(build.builders) : UniqueNames(StepsOf(build.builders[k]))

\* ----------------------------------------------------------------- C16
\* Every name in the dependsOn of a step is the name of a step declared
\* before it in the list.
DependsOnEarlier(ss) ==
  \A i \in 1..Len(ss) : \A d \in Range(ss[i].dependsOn) :
    \E j \in 1..(i - 1) : ss[j].name = d

\* C16: in every step list a builder value holds, and so in every graph
\* handed to the scheduler, each dependsOn name refers to a step declared
\* earlier than the step that lists it.
C16_DependsOnEarlierSteps ==
  \A k \in 1..Len(build.builders) : DependsOnEarlier(StepsOf(build.builders[k]))

\* ----------------------------------------------------------------- C17
\* C17: two builder values produced by the same chain of calls (same names,
\* same targets, same dependencies, same order) are scheduled alike: the
\* scheduler returns the same order, or the same error, for both.
C17_SameChainSameSchedule ==
  \A k, l \in 1..Len(build.builders) :
    build.builders[k].chain = build.builders[l].chain =>
      topologicalSort(StepsOf(build.builders[k]))
        = topologicalSort(StepsOf(build.builders[l]))

\* ----------------------------------------------------------------- C18
\* The target of a step, and whether it holds exactly one separator.
TargetOf(step) == IF step.type = "ai" THEN step.model ELSE step.mcpTool
OneSeparator(target) == Cardinality({i \in 1..Len(target) : target[i] = ":"}) = 1

\* C18: when the target of some step of the workflow does not hold exactly
\* one ":", no adapter and no tool executor is called in the run, and the
\* run fails with a graph-validity error.
C18_BadTargetFailsBeforeAnyStep ==
  (\E i \in 1..Len(steps) : ~OneSeparator(TargetOf(steps[i]))) =>
    /\ EventsOf("invoke") = {}
    /\ pc = "done" => (~result.success /\ result.error.kind \in GraphValidityErrors)

\* ----------------------------------------------------------------- C19
\* The outputs of the steps that completed before position k of the history,
\* each under the name of its step.
CompletedBefore(k) ==
  LET done == {j \in EventsOf("ok") : j < k}
      last(n) == CHOOSE j \in done :
                   events[j].step = n /\ \A i \in done : events[i].step = n => i <= j
  IN [n \in {events[j].step : j \in done} |-> events[last(n)].output]

\* C19: the step outputs handed to a step when it is dispatched are exactly
\* the outputs of the steps completed so far in the run, each under the
\* name of the step that produced it.
C19_ContextIsCompletedOutputs ==
  \A k \in EventsOf("dispatch") : events[k].context = CompletedBefore(k)

\* The second step of a workflow with a tool step was handed the output of
\* the first, an empty string.
C19_Witness ==
  /\ HasMcpStep
  /\ \E k \in EventsOf("dispatch") :
       /\ events[k].step = "b"
       /\ DOMAIN events[k].context = {"a"}
       /\ events[k].context["a"] = ""

\* ----------------------------------------------------------------- C20
\* How often a step of the given name completed in the run.
TimesCompleted(n) == Cardinality({k \in EventsOf("ok") : events[k].step = n})

\* C20: a run resolves with success = true only if no step failed and every
\* step of the graph was executed and completed.
C20_SuccessMeansAllStepsSucceeded ==
  (pc = "done" /\ result.success) =>
    /\ Failed = {}
    /\ \A i \in 1..Len(steps) :
         TimesCompleted(steps[i].name)
           = Cardinality({j \in 1..Len(steps) : steps[j].name = steps[i].name})

LastDispatched ==
  events[CHOOSE k \in EventsOf("dispatch") : \A j \in EventsOf("dispatch") : j <= k].step

\* C22: a run that ended on an exception thrown before any step was started
\* resolves with success = false, an error and no error.stepName; and
\* error.stepName is set only in a failed run in which a step was started,
\* and then names the step started last.
C22_StepNameOnlyForStepFailures ==
  /\ (pc = "done" /\ EventsOf("dispatch") = {}) =>
       /\ ~result.success
       /\ result.error.kind \notin {"none", "pending"}
       /\ result.error.stepName = Undef
  /\ (pc = "done" /\ result.error.stepName # Undef) =>
       /\ ~result.success
       /\ EventsOf("dispatch") # {}
       /\ result.error.stepName = LastDispatched

\* The scheduler of a workflow with a tool step threw for a dependency that
\* names no step, and run() returned the failure without a step name.
C22_Witness ==
  /\ pc = "done" /\ ~result.success
  /\ HasMcpStep
  /\ result.error.kind = "StepNotFound"
  /\ NothingExecuted
  /\ result.error.stepName = Undef

\* ----------------------------------------------------------------- C23
\* The server a well-formed tool target names.
ServerOf(step) == parseMCPTool(step.mcpTool).value[1]

\* The dispatch at position k of the history started a tool step whose
\* well-formed target names a server that is not loaded.
ServerMissingAt(k) ==
  LET step == steps[Referent(steps, events[k].step)]
  IN /\ step.type = "mcp"
     /\ parseMCPTool(step.mcpTool).ok
     /\ ServerOf(step) \notin servers

\* C23: when a tool step is started whose target names a server that is not
\* among the loaded servers, the step fails at once without a call of the
\* tool executor, nothing follows it in the run, and the run's result is a
\* failure at that step with the server-not-found error naming the server.
C23_MissingServerFailsStep ==
  \A k \in EventsOf("dispatch") :
    ServerMissingAt(k) =>
      /\ Len(events) = k + 1
      /\ events[k + 1].ev = "fail" /\ events[k + 1].step = events[k].step
      /\ pc = "done" /\ ~result.success
      /\ result.error.kind = "McpServerNotFound"
      /\ result.error.about = {ServerOf(steps[Referent(steps, events[k].step)])}
      /\ result.error.stepName = events[k].step

\* With only the server db loaded, a tool step targeting crm failed after an
\* AI step had completed.
C23_Witness ==
  /\ servers = {"db"}
  /\ pc = "done"
  /\ Cardinality(Completed) = 1
  /\ \E k \in EventsOf("dispatch") : ServerMissingAt(k) /\ k > 1
  /\ result.error.kind = "McpServerNotFound"

\* ----------------------------------------------------------------- C24
\* The provider of an AI step with a well-formed target.
ProviderOf(step) == parseModel(step.model).value[1]

\* The key the three tiers yield for a provider, if any.
KeyOf(provider) ==
  LET c == resolveProviderConfig(provider, options, globalProviders, env)
  IN IF c.defined THEN c.apiKey ELSE Undef

\* The step has a configuration error: an AI step of a provider that needs
\* a key and has none, or a tool step whose server is not loaded.
Affected(step) ==
  IF step.type = "ai"
  THEN /\ parseModel(step.model).ok
       /\ ProviderOf(step) # "local"
       /\ ~Truthy(KeyOf(ProviderOf(step)))
  ELSE parseMCPTool(step.mcpTool).ok /\ ServerOf(step) \notin servers

\* The order in which a well-formed graph is executed.
Order == topologicalSort(steps).value

\* Positions of the order that hold an affected step, and the first of them.
AffectedAt == {i \in 1..Len(Order) : Affected(Order[i])}
FirstAffected == CHOOSE i \in AffectedAt : \A j \in AffectedAt : i <= j

Dispatched == {events[k].step : k \in EventsOf("dispatch")}
Invoked == {events[k].step : k \in EventsOf("invoke")}

\* The run is over, it stopped at its first affected step or before, and no
\* step scheduled before that step failed.
StoppedByConfiguration ==
  /\ pc = "done"
  /\ AffectedAt # {}
  /\ \A j \in 1..(FirstAffected - 1) : Order[j].name \notin Failed

\* The steps scheduled before the first affected step were started and
\* completed.
EarlierStepsRan ==
  \A j \in 1..(FirstAffected - 1) :
    Order[j].name \in Dispatched /\ Order[j].name \in Completed

\* The first affected step was reached in its turn: the steps scheduled
\* before it ran, and it was started and failed.
DetectedAtDispatch ==
  /\ EarlierStepsRan
  /\ Order[FirstAffected].name \in Dispatched
  /\ Failed = {Order[FirstAffected].name}
  /\ result.error.stepName = Order[FirstAffected].name

\* The run was refused for its missing keys before any step was started.
DetectedBeforeAnyStep ==
  /\ NothingExecuted
  /\ result.error.kind = "MissingApiKeys"
  /\ \E i \in AffectedAt :
       Order[i].type = "ai" /\ ProviderOf(Order[i]) \in result.error.about

LocalStepReached(i) ==
  /\ Order[i].type = "ai"
  /\ ProviderOf(Order[i]) = "local"
  /\ KeyOf("local") = Undef
  /\ pc = "done"
  /\ AffectedAt = {}
  /\ \A j \in 1..(i - 1) : Order[j].name \in Completed
  /\ HasMcpStep => Order[i].dependsOn = <<>>

\* C25: a step of the provider local, which needs no credential, does not
\* fail for a missing credential: with no key for local in any tier its
\* adapter is called when its turn comes, and the run does not fail with the
\* missing-key error.
C25_LocalProviderNeedsNoKey ==
  \A i \in 1..Len(Order) :
    LocalStepReached(i) =>
      /\ Order[i].name \in Invoked
      /\ result.error.kind # "MissingApiKeys"

\* ----------------------------------------------------------------- C26
\* C26: once the abort signal of the run options has been triggered during a
\* run, no further step is started and no further adapter or tool is called,
\* and the run ends as a failure that reports the cancellation.
C26_AbortStopsDispatch ==
  \A k \in EventsOf("abort") :
    /\ \A j \in EventsOf("dispatch") \cup EventsOf("invoke") : j < k
    /\ pc = "done" => (~result.success /\ result.error.kind = "Cancelled")

\* ----------------------------------------------------------------- C27
\* How often a step of the given name was started, and how often its
\* adapter or tool was called.
TimesDispatched(n) == Cardinality({k \in EventsOf("dispatch") : events[k].step = n})
TimesInvoked(n) == Cardinality({k \in EventsOf("invoke") : events[k].step = n})

\* C27: within one run every step is started at most once and its adapter
\* or tool is called at most once; after a step has failed, neither it nor
\* any other step is started or called again.
C27_StepInvokedAtMostOnce ==
  /\ \A n \in NameSet : TimesDispatched(n) <= 1 /\ TimesInvoked(n) <= 1
  /\ \A k \in EventsOf("fail") :
       \A j \in EventsOf("dispatch") \cup EventsOf("invoke") : j < k

\* The tool of the second step of a workflow was called once and failed,
\* and the run ended with that failure.
C27_Witness ==
  /\ pc = "done" /\ ~result.success
  /\ Len(sortedSteps) = 2
  /\ \E k \in EventsOf("fail") :
       /\ events[k].via = "tool"
       /\ events[k].step = sortedSteps[2].name
       /\ TimesInvoked(events[k].step) = 1
  /\ result.error.kind = "McpStepFailed"

\* ----------------------------------------------------------------- C28
\* C28: whatever its arguments, the adapter registry and the adapter do, a
\* call of the adapter executor resolves with a result object, never
\* rejects; a call that did not succeed carries an error with a type and a
\* message.
C28_ExecutorNeverThrows ==
  exec.stage = "settled" =>
    /\ exec.out.ok
    /\ exec.out.value.success \/
         (exec.out.value.error.type # Undef /\ exec.out.value.error.message # Undef)

\* ----------------------------------------------------------------- C29
\* C29: when telemetry is enabled, every run that has completed, with
\* success or with failure, has offered exactly one run record to the
\* telemetry client, and the record's status is the run's.
C29_EveryRunIsRecorded ==
  (pc = "done" /\ telemetry.enabled) =>
    /\ Len(telemetry.offered) = 1
    /\ telemetry.offered[1].status = (IF result.success THEN "success" ELSE "failed")

C31_TimeoutBoundsTheRun ==
  (pc = "done" /\ \E t \in options.timeout : Ticks(0) > t) => ~result.success

\* ----------------------------------------------------------------- C32
\* The step names an error reports form a closed chain of dependencies: each
\* of them depends directly on one of them.
ReportsChain(ss, names) ==
  /\ names # {}
  /\ \A n \in names :
       /\ Referent(ss, n) # 0
       /\ \E m \in names : Referent(ss, m) \in DependsDirectly(ss, Referent(ss, n))

\* C32: a step list with a dependency cycle is never ordered, and the error
\* of the scheduler that reports a circular dependency names the steps of the
\* cycle, from the step at which the cycle closes back to that step.
C32_CycleReportedAsChain ==
  /\ (HasCycle(steps) /\ pc # "idle") => pc = "unsorted"
  /\ (pc = "unsorted" /\ result.error.kind = "CircularDependency") =>
       ReportsChain(steps, result.error.about)

\* ----------------------------------------------------------------- C33
\* C33: the features recorded on a builder are those declared on that builder
\* value (or on the values it was obtained from, before it was obtained),
\* so a builder on which none was declared shows no cloud intent when run.
C33_FeaturesRecordedOnThatBuilderAlone ==
  \A k \in 1..Len(build.builders) :
    /\ build.heap[build.builders[k].cloud] = build.builders[k].declared
    /\ detectCloudIntent(k) = (build.builders[k].declared # {})

\* ----------------------------------------------------------------- C34
\* The step metadata names a provider, an adapter is registered for it, and
\* a key is configured for it or the provider needs none.
MayCallAdapter ==
  /\ Truthy(exec.provider)
  /\ exec.registry = "adapter"
  /\ Truthy(exec.key) \/ exec.provider \in keyless

\* The call resolved with a failure result of the given error type.
FailedWith(type) ==
  /\ exec.out.ok
  /\ ~exec.out.value.success
  /\ exec.out.value.error.type = type

\* C34 as stated: the adapter is called only if the metadata names a
\* provider, an adapter is registered and a key is configured (or the
\* provider is keyless); in every other case the call returns a
\* ValidationError result and no adapter is called.
C34_CallsAdapterOnlyWhenConfigured ==
  exec.stage = "settled" =>
    /\ exec.called => MayCallAdapter
    /\ ~MayCallAdapter => (~exec.called /\ FailedWith("ValidationError"))

\* C34 amended: the adapter is called only under those conditions. Without a
\* provider in the metadata, when the registry has no adapter for it, or
\* when it has one and the key is missing for a provider that is not
\* keyless, the call returns a ValidationError result. When the registry
\* lookup itself throws, no adapter is called and no ValidationError is
\* produced: the newer executor answers a missing peer dependency with a
\* MissingDependencyError result.
C34_CallsAdapterOnlyWhenConfigured_amended ==
  exec.stage = "settled" =>
    /\ exec.called => MayCallAdapter
    /\ (~MayCallAdapter /\ (~Truthy(exec.provider) \/ exec.registry \in {"adapter", "none"}))
         => (~exec.called /\ FailedWith("ValidationError"))
    /\ (Truthy(exec.provider) /\ exec.registry \in {"throws", "throwsMissingPeer"})
         => (~exec.called /\ ~FailedWith("ValidationError"))
    /\ (Truthy(exec.provider) /\ exec.registry = "throwsMissingPeer"
          /\ exec.release = "configs") => FailedWith("MissingDependencyError")

\* The newer executor called the adapter of the keyless provider without a key.
C34_Witness ==
  /\ exec.stage = "settled"
  /\ exec.called
  /\ exec.provider = "local"
  /\ ~Truthy(exec.key)

\* ----------------------------------------------------------------- C35
\* The last call of configure() or resetConfig() so far, 0 if there was none.
LastConfigCall ==
  LET calls == {k \in 1..Len(events) : events[k].ev \in {"configure", "resetConfig"}}
  IN IF calls = {} THEN 0 ELSE CHOOSE k \in calls : \A j \in calls : j <= k

\* C35: once resetConfig() was called and configure() was not called since,
\* the configured providers are empty, telemetry is disabled, no telemetry
\* client is handed to a run, and no run has offered a record to the
\* telemetry client since the reset.
C35_ResetRestoresDefaults ==
  (LastConfigCall # 0 /\ events[LastConfigCall].ev = "resetConfig") =>
    /\ globalProviders = EmptyObj
    /\ servers = {}
    /\ ~telemetry.enabled
    /\ ~getTelemetryClient
    /\ Len(telemetry.offered) = events[LastConfigCall].output

\* ----------------------------------------------------------------- C36
\* The key of the first tier that has an entry for the provider: the run
\* options, then the global configuration, then the environment.
ResolvedKey(provider) ==
  IF HasKey(options.providers, provider) THEN options.providers[provider].apiKey
  ELSE IF HasKey(globalProviders, provider) THEN globalProviders[provider].apiKey
  ELSE IF HasKey(PROVIDER_ENV_VARS, provider) /\ HasKey(env, PROVIDER_ENV_VARS[provider])
  THEN env[PROVIDER_ENV_VARS[provider]]
  ELSE Undef

\* The adapter executor has just turned down the step the engine handed it,
\* without calling the adapter.
RejectedByExecutor ==
  /\ pc = "engine"
  /\ eng.stage = "failed"
  /\ eng.order[eng.idx].name \notin Invoked

C37_FailedRunRecordListsSteps ==
  ( /\ pc = "done"
    /\ ~result.success
    /\ result.error.stepName # Undef
    /\ telemetry.offered # <<>> ) =>
    LET record == telemetry.offered[Len(telemetry.offered)]
    IN /\ record.status = "failed"
       /\ HasKey(record.steps, result.error.stepName)
       /\ Lookup(record.steps, result.error.stepName) = "failed"
       /\ \A n \in Completed \ {result.error.stepName} :
            HasKey(record.steps, n) /\ Lookup(record.steps, n) = "success"

\***************************************************************************
\* The optimize module: one optimize() call followed from its entry to the
\* response it returns or the error it throws.  The relay() call it awaits
\* is outside the module; it resolves or rejects.
\***************************************************************************

MaxRetries == 2

OptModels == {"gpt-4", "claude-3-sonnet", "gpt-3.5-turbo"}

Strategies == {"latency", "cost", "fallback", "balanced"}

\* estimateTokenCount(request.payload) of the requests followed.
TokenCounts == {1, 2}

\* metrics.costPerToken of a model, in units in which the sums are exact.
TokenCosts == {1, 2}

MaxCosts == {1, 3}

\* config.fallbackChain: the models of a chain, none of them twice.
FallbackChains ==
  {c \in SeqsUpTo(OptModels, Cardinality(OptModels)) :
     \A a, b \in 1..Len(c) : a # b => c[a] # c[b]}

estimateRequestCost(tokenCount, costPerToken, model) == tokenCount * costPerToken[model]

\* [...new Set(modelsToTry)]: the first occurrence of every model, in order.
RECURSIVE dedupe(_, _)
dedupe(models, seen) ==
  IF models = <<>> THEN <<>>
  ELSE IF Head(models) \in seen THEN dedupe(Tail(models), seen)
  ELSE <<Head(models)>> \o dedupe(Tail(models), seen \cup {Head(models)})

\* Array.prototype.sort by costPerToken, lowest first; the sort is stable.
RECURSIVE insertByCost(_, _, _)
insertByCost(model, sorted, costPerToken) ==
  IF sorted = <<>> THEN <<model>>
  ELSE IF costPerToken[model] < costPerToken[Head(sorted)] THEN <<model>> \o sorted
  ELSE <<Head(sorted)>> \o insertByCost(model, Tail(sorted), costPerToken)

RECURSIVE sortByCost(_, _)
sortByCost(chain, costPerToken) ==
  IF chain = <<>> THEN <<>>
  ELSE insertByCost(chain[Len(chain)],
                    sortByCost(SubSeq(chain, 1, Len(chain) - 1), costPerToken),
                    costPerToken)

\* The model order of one strategy.  `primary` is what getFastestModel or
\* getMostReliableModel picked of the chain; both reduce the chain without
\* an initial value, which throws a TypeError on an empty chain.
reduceThrows(strategy, chain) == strategy \in {"latency", "balanced"} /\ chain = <<>>

modelsToTry(strategy, chain, primary, costPerToken) ==
  dedupe(CASE strategy = "latency" -> <<primary>> \o chain
           [] strategy = "cost" -> sortByCost(chain, costPerToken)
           [] strategy = "fallback" -> chain
           [] OTHER -> <<primary>> \o SelectSeq(chain, LAMBDA m : m # primary),
         {})

overCeiling_never(totalCost, estimatedCost, maxCost) == FALSE

\* trace.totalCost + estimatedCost > config.maxCost
overCeiling(totalCost, estimatedCost, maxCost) == totalCost + estimatedCost > maxCost

\* The model of the iteration the loop stands at, and its estimated cost.
CurrentModel == opt.modelsToTry[opt.i + 1]

EstimatedCost == estimateRequestCost(opt.tokenCount, opt.costPerToken, CurrentModel)

Attempt(outcome) ==
  [model |-> CurrentModel, estimatedCost |-> EstimatedCost,
   totalCost |-> opt.totalCost, outcome |-> outcome]

\* optimize() from its entry to the loop: the API key check, the cache
\* lookup, the model order.
OptimizeEnter ==
  /\ opt.stage = "call"
  /\ IF ~opt.hasApiKey
       THEN opt' = [opt EXCEPT !.stage = "thrown", !.outcome = "RelayError"]
     ELSE IF opt.enableCache /\ opt.cached
       THEN opt' = [opt EXCEPT !.stage = "returned", !.outcome = "cached"]
     ELSE IF reduceThrows(opt.strategy, opt.fallbackChain)
       THEN opt' = [opt EXCEPT !.stage = "thrown", !.outcome = "TypeError"]
     ELSE \E primary \in IF opt.fallbackChain = <<>> THEN {Undef}
                         ELSE Range(opt.fallbackChain) :
            opt' = [opt EXCEPT !.stage = "loop",
                               !.modelsToTry = modelsToTry(opt.strategy, opt.fallbackChain,
                                                           primary, opt.costPerToken)]
  /\ UNCHANGED <<config, pc, sortedSteps, idx, stepOutputs, eng, result, events, pair,
                 build, telemetry, exec>>

\* One turn of the for loop up to the relay() call: the loop condition, the
\* cost ceiling check; when the loop is over, the RelayError after it.
OptimizeIterate ==
  /\ opt.stage = "loop"
  /\ IF opt.i < Len(opt.modelsToTry) /\ opt.i <= opt.maxRetries
       THEN IF overCeiling(opt.totalCost, EstimatedCost, opt.maxCost)
              THEN opt' = [opt EXCEPT !.modelAttempts =
                                         Append(@, Attempt("cost_ceiling_exceeded")),
                                      !.i = @ + 1]
              ELSE opt' = [opt EXCEPT !.stage = "wait", !.relayCalls = @ + 1]
       ELSE opt' = [opt EXCEPT !.stage = "thrown", !.outcome = "RelayError"]
  /\ UNCHANGED <<config, pc, sortedSteps, idx, stepOutputs, eng, result, events, pair,
                 build, telemetry, exec>>

\* The awaited relay() call settles: resolved, optimize() stores the
\* response in the cache when caching is on and returns it; rejected, the
\* loop goes on with the next model.
RelaySettles(ok) ==
  /\ opt.stage = "wait"
  /\ IF ok
       THEN opt' = [opt EXCEPT !.stage = "returned", !.outcome = CurrentModel,
                               !.modelAttempts = Append(@, Attempt("success")),
                               !.totalCost = @ + EstimatedCost,
                               !.stored = opt.enableCache]
       ELSE opt' = [opt EXCEPT !.stage = "loop", !.i = @ + 1,
                               !.modelAttempts = Append(@, Attempt("request_failed"))]
  /\ UNCHANGED <<config, pc, sortedSteps, idx, stepOutputs, eng, result, events, pair,
                 build, telemetry, exec>>

InitOptimize ==
  /\ steps = <<>>
  /\ globalProviders = EmptyObj
  /\ env = EmptyObj
  /\ servers = {}
  /\ options = RunOptions(EmptyObj)
  /\ keyless = {}
  /\ InitRun
  /\ pair = PairOff
  /\ build = BuildOff
  /\ telemetry = TelemetryOff
  /\ exec = ExecOff
  /\ opt \in [stage : {"call"}, hasApiKey : BOOLEAN, enableCache : BOOLEAN,
              cached : BOOLEAN, strategy : Strategies, fallbackChain : FallbackChains,
              costPerToken : [OptModels -> TokenCosts], tokenCount : TokenCounts,
              maxCost : MaxCosts, maxRetries : 0..MaxRetries,
              modelsToTry : {<<>>}, i : {0}, totalCost : {0}, modelAttempts : {<<>>},
              relayCalls : {0}, outcome : {"none"}, stored : {FALSE}]

NextOptimize ==
  \/ OptimizeEnter
  \/ OptimizeIterate
  \/ \E ok \in BOOLEAN : RelaySettles(ok)

SpecOptimize == InitOptimize /\ [][NextOptimize]_vars

\* ------------------------------------------------------------------ C38
\* The attempts of the call follow the selected model order, one model
\* after the other from the first.
AttemptsInOrder ==
  /\ Len(opt.modelAttempts) <= Len(opt.modelsToTry)
  /\ \A j \in 1..Len(opt.modelAttempts) : opt.modelAttempts[j].model = opt.modelsToTry[j]

\* The call returned the response of the first relay call that succeeded.
ReturnedFirstSuccess ==
  /\ opt.modelAttempts # <<>>
  /\ opt.modelAttempts[Len(opt.modelAttempts)].outcome = "success"
  /\ opt.modelAttempts[Len(opt.modelAttempts)].model = opt.outcome
  /\ \A j \in 1..(Len(opt.modelAttempts) - 1) : opt.modelAttempts[j].outcome # "success"

\* C38, for the calls that are not answered from the response cache: an
\* optimize() call issues at most maxRetries + 1 relay calls; when it
\* returns, it returns the response of the first relay call that succeeded,
\* the models having been tried in the selected order; when it throws, it
\* throws a RelayError and no relay call succeeded.
C38_FirstSuccessOrRelayError ==
  /\ opt.relayCalls <= opt.maxRetries + 1
  /\ AttemptsInOrder
  /\ (opt.stage = "returned" /\ opt.outcome # "cached") => ReturnedFirstSuccess
  /\ opt.stage = "thrown" =>
       /\ opt.outcome = "RelayError"
       /\ \A j \in 1..Len(opt.modelAttempts) : opt.modelAttempts[j].outcome # "success"

\* ------------------------------------------------------------------ C39
\* The attempts of the call for which a relay call was issued.
IssuedAttempts ==
  {j \in 1..Len(opt.modelAttempts) : opt.modelAttempts[j].outcome # "cost_ceiling_exceeded"}

\* C39: optimize() issues no relay call for a model when the cost
\* accumulated so far plus the model's estimated request cost exceeds
\* maxCost: neither the call it is waiting for nor any call it has issued.
C39_NoRelayCallOverCostCeiling ==
  /\ opt.stage = "wait" => opt.totalCost + EstimatedCost <= opt.maxCost
  /\ \A j \in IssuedAttempts :
       opt.modelAttempts[j].totalCost + opt.modelAttempts[j].estimatedCost <= opt.maxCost

\* A model was passed over for its cost and the relay call of a later,
\* cheaper model of the same call was issued and has settled.
C39_Witness ==
  /\ opt.stage \in {"returned", "loop"}
  /\ \E j \in IssuedAttempts :
       \E k \in 1..(j - 1) :
         /\ opt.modelAttempts[k].outcome = "cost_ceiling_exceeded"
         /\ opt.modelAttempts[k].estimatedCost > opt.modelAttempts[j].estimatedCost

\***************************************************************************
\* The response cache of the optimize module taken by itself: get() and
\* set() on the one ResponseCache.  `cache` is the Map, its keys in
\* insertion order; `recency` lists the same keys from the least recently
\* used (read by get() or written by set()) to the most recently used;
\* `evicted` and `leastRecent` are the key the last eviction removed and the
\* least recently used key at that moment.
\***************************************************************************

MAX_CACHE_SIZE == 2

\* generateCacheKey(request) of the requests followed.
CacheKeys == {"r1", "r2", "r3", "r4"}

Without(s, key) == SelectSeq(s, LAMBDA k : k # key)

\* Map.prototype.set: a key the map holds keeps its place, a new one goes last.
MapSet(map, key) == IF key \in Range(map) THEN map ELSE Append(map, key)

\* ResponseCache.get: null for a key the map does not hold; an expired
\* entry is deleted and null returned; otherwise the entry is returned and
\* the map left as it is.
CacheGet(key, expired) ==
  /\ opt.stage = "cache"
  /\ IF key \in Range(opt.cache) /\ expired
       THEN opt' = [opt EXCEPT !.cache = Without(@, key), !.recency = Without(@, key)]
     ELSE IF key \in Range(opt.cache)
       THEN opt' = [opt EXCEPT !.recency = Append(Without(@, key), key)]
     ELSE opt' = opt
  /\ UNCHANGED <<config, pc, sortedSteps, idx, stepOutputs, eng, result, events, pair,
                 build, telemetry, exec>>

\* ResponseCache.set: on a full map the first key of the map is deleted,
\* then the entry is stored under the key.
CacheSet(key) ==
  /\ opt.stage = "cache"
  /\ IF Len(opt.cache) >= MAX_CACHE_SIZE
       THEN opt' = [opt EXCEPT !.cache = MapSet(Tail(opt.cache), key),
                               !.recency = Append(Without(Without(@, Head(opt.cache)), key),
                                                  key),
                               !.evicted = Head(opt.cache),
                               !.leastRecent = Head(opt.recency)]
       ELSE opt' = [opt EXCEPT !.cache = MapSet(@, key),
                               !.recency = Append(Without(@, key), key)]
  /\ UNCHANGED <<config, pc, sortedSteps, idx, stepOutputs, eng, result, events, pair,
                 build, telemetry, exec>>

InitCache ==
  /\ steps = <<>>
  /\ globalProviders = EmptyObj
  /\ env = EmptyObj
  /\ servers = {}
  /\ options = RunOptions(EmptyObj)
  /\ keyless = {}
  /\ InitRun
  /\ pair = PairOff
  /\ build = BuildOff
  /\ telemetry = TelemetryOff
  /\ exec = ExecOff
  /\ opt = [stage |-> "cache", cache |-> <<>>, recency |-> <<>>,
            evicted |-> Undef, leastRecent |-> Undef]

NextCache ==
  \/ \E key \in CacheKeys, expired \in BOOLEAN : CacheGet(key, expired)
  \/ \E key \in CacheKeys : CacheSet(key)

SpecCache == InitCache /\ [][NextCache]_vars

\* ------------------------------------------------------------------ C40
\* C40: when set() on a full response cache has evicted an entry, that
\* entry was the least recently used one of the cache.
C40_EvictsLeastRecentlyUsed ==
  opt.evicted # Undef => opt.evicted = opt.leastRecent

====
